---- MODULE Spec2Model ----
(***************************************************************************)
(* A model of go_localstack (pkg/localstack): the service descriptors and  *)
(* the Service Set, the construction of the Localstack handle              *)
(* (getLocalstack / newPersistentLocalstack) against a DockerWrapper, and  *)
(* the endpoint resolver (Localstack.EndpointFor).                         *)
(*                                                                         *)
(* Go values are modelled as follows.  A string is a TLA+ string and       *)
(* fmt.Sprintf is written out with \o.  A pointer or an error that may be  *)
(* nil is a sequence of length at most one: << >> is nil and <<v>> is a    *)
(* non-nil value v (for an error, v is its message).  The Service Set is   *)
(* a heap cell: the caller holds a pointer to it and the handle stores     *)
(* that pointer.                                                           *)
(***************************************************************************)
EXTENDS Integers, Sequences, FiniteSets, TLC

\* ------------------------------------------------------------------ bounds
\* longest Service Set the caller builds
MaxServices == 2
\* longest container list the runtime returns
MaxContainers == 2

\* the longest Service Set the calls on the set alone are tried on
MaxSetLen == 3

\* the check invocations one Retry call makes before it gives up
RetryBudget == 2

\* the lines the container writes while the model looks at it
MaxLogLines == 2

\* ------------------------------------------------------------- Go helpers
Nil == << >>

NonNil(v) == << v >>

IsNil(p) == p = << >>

Deref(p) == p[1]

\* fmt.Errorf(msg): a non-nil error carrying the message
Errorf(msg) == << msg >>

Digit(d) ==
    CASE d = 0 -> "0" [] d = 1 -> "1" [] d = 2 -> "2" [] d = 3 -> "3"
      [] d = 4 -> "4" [] d = 5 -> "5" [] d = 6 -> "6" [] d = 7 -> "7"
      [] d = 8 -> "8" [] d = 9 -> "9"

RECURSIVE Itoa(_)
\* the %d verb of fmt.Sprintf for a non-negative integer
Itoa(n) == IF n < 10 THEN Digit(n) ELSE Itoa(n \div 10) \o Digit(n % 10)

RECURSIVE Join(_, _)
\* strings.Join
Join(elems, sep) ==
    IF Len(elems) = 0 THEN ""
    ELSE IF Len(elems) = 1 THEN elems[1]
    ELSE elems[1] \o sep \o Join(Tail(elems), sep)

\* strings.Contains
StringsContains(s, substr) ==
    \E k \in 1..(Len(s) - Len(substr) + 1) :
        SubSeq(s, k, k + Len(substr) - 1) = substr

\* the bytes that occur in service names, in byte order
Alphabet == "0123456789abcdefghijklmnopqrstuvwxyz"

\* the place of a one-byte string in the byte order
Rank(ch) == CHOOSE k \in 1..Len(Alphabet) : SubSeq(Alphabet, k, k) = ch

RECURSIVE StringLess(_, _)
\* Go's a < b on strings: bytewise, a proper prefix is smaller
StringLess(a, b) ==
    IF Len(b) = 0 THEN FALSE
    ELSE IF Len(a) = 0 THEN TRUE
    ELSE IF SubSeq(a, 1, 1) = SubSeq(b, 1, 1)
         THEN StringLess(SubSeq(a, 2, Len(a)), SubSeq(b, 2, Len(b)))
         ELSE Rank(SubSeq(a, 1, 1)) < Rank(SubSeq(b, 1, 1))

\* ------------------------------------------------- localstackService.go
\* the port every descriptor is given
ServicePort == 4566

\* the allow-list of NewLocalstackService, in source order
services ==
    << "apigateway", "kinesis", "dynamodb", "dynamodbstreams", "es", "s3",
       "firehose", "lambda", "sns", "sqs", "redshift", "ses", "route53",
       "cloudformation", "cloudwatch", "ssm", "secrestmanager",
       "stepfunctions", "logs", "sts", "iam" >>

\* variant: no allow-list, every name is accepted
NewLocalstackServiceAcceptAll(name) ==
    [svc |-> NonNil([Name |-> name, Protocol |-> "tcp", Port |-> ServicePort]),
     err |-> Nil]

\* NewLocalstackService: the descriptor for an allowed name, an error otherwise
NewLocalstackService(name) ==
    IF \E k \in 1..Len(services) : services[k] = name
    THEN [svc |-> NonNil([Name |-> name, Protocol |-> "tcp", Port |-> ServicePort]),
          err |-> Nil]
    ELSE [svc |-> Nil,
          err |-> Errorf("unknown Localstack Service: " \o name)]

\* variant: the rendering of GetPortProtocol is appended to the name
GetNamePortProtocol(service) ==
    service.Name \o ":" \o Itoa(service.Port) \o "/" \o service.Protocol

GetNamePort(service) == service.Name \o ":" \o Itoa(service.Port)

RECURSIVE GetServiceMapTrailingComma(_)
\* variant: every entry is followed by a comma, the last one too
GetServiceMapTrailingComma(collection) ==
    IF Len(collection) = 0 THEN ""
    ELSE GetNamePort(collection[1]) \o "," \o GetServiceMapTrailingComma(Tail(collection))

\* variant: an empty set is rendered as the one entry "all"
GetServiceMapEmptyIsAll(collection) ==
    IF Len(collection) = 0 THEN "all"
    ELSE Join([k \in 1..Len(collection) |-> GetNamePort(collection[k])], ",")

GetServiceMap(collection) ==
    Join([k \in 1..Len(collection) |-> GetNamePort(collection[k])], ",")

\* LocalstackServiceCollection.Swap
Swap(collection, m, n) ==
    [collection EXCEPT ![m] = collection[n], ![n] = collection[m]]

\* variant: the comparison is the other way round
LessReversed(collection, m, n) ==
    StringLess(collection[n].Name, collection[m].Name)

\* LocalstackServiceCollection.Less
Less(collection, m, n) ==
    StringLess(collection[m].Name, collection[n].Name)

RECURSIVE Sink(_, _)
\* the inner loop of sort.Sort's insertion sort: element j moves down while
\* it is Less than the one before it
Sink(collection, j) ==
    IF j > 1 /\ Less(collection, j, j - 1)
    THEN Sink(Swap(collection, j, j - 1), j - 1)
    ELSE collection

RECURSIVE InsertionSort(_, _)
\* sort.Sort on a collection of at most 6 elements is an insertion sort; its
\* outer loop from element m on
InsertionSort(collection, m) ==
    IF m > Len(collection) THEN collection
    ELSE InsertionSort(Sink(collection, m), m + 1)

\* LocalstackServiceCollection.Sort: the sorted elements and the pointer returned
Sort(ptr, collection) ==
    [elements |-> InsertionSort(collection, 2), out |-> ptr]

\* variant: only the last element decides
ContainsLastOnly(collection, name) ==
    Len(collection) > 0 /\ collection[Len(collection)].Name = name

\* variant: the loop returns after looking at the first element
ContainsFirstOnly(collection, name) ==
    Len(collection) > 0 /\ collection[1].Name = name

\* LocalstackServiceCollection.Contains
Contains(collection, name) ==
    \E k \in 1..Len(collection) : collection[k].Name = name

\* ------------------------------------------------------------ localstack.go
LocalstackRepository == "localstack/localstack"

LocalstackTag == "0.11.5"

\* the SDK identifier -> descriptor name table of EndpointFor
availableServices ==
    [k \in {"apigateway", "kinesis", "dynamodb", "streams.dynamodb", "es", "s3",
            "firehose", "lambda", "sns", "sqs", "redshift", "email", "route53",
            "cloudformation", "monitoring", "ssm", "secretsmanager", "states",
            "logs", "sts", "iam"} |->
        CASE k = "streams.dynamodb" -> "dynamodbstreams"
          [] k = "email" -> "ses"
          [] k = "monitoring" -> "cloudwatch"
          [] k = "states" -> "stepfunctions"
          [] OTHER -> k]

\* ------------------------------------------------------- inputs, environment
\* names the caller asks NewLocalstackService for
CandidateNames ==
    {services[k] : k \in 1..Len(services)}
        \cup {availableServices[k] : k \in DOMAIN availableServices}
        \cup {"", "SQS", "ec2"}

\* names the caller puts into the Service Set
PoolNames == {"sqs", "s3", "ses", "secretsmanager"}

\* the explicit container names a caller passes ("" is no name)
Names == {"", "X"}

Tags == {LocalstackTag, "latest"}

DataPaths == {"", "/tmp/data"}

\* the address of the caller's Service Set
ServicesPtr == "&services"

\* errors the container runtime reports
DockerErrors == {"dummy Error", "EOF"}

\* what a listed container can look like: docker.APIContainers{Image, Names}
ListedImages ==
    {LocalstackRepository \o ":" \o LocalstackTag,
     LocalstackRepository \o ":latest",
     "DummyImage:1.0.0"}

ListedNames == {<< >>, <<"/X">>, <<"DummyName">>, <<"/Y", "/X">>}

\* a listing gives every container its own id
ContainerLists ==
    UNION {
        {[k \in 1..n |-> [ID |-> "c" \o Itoa(k),
                          Image |-> shape[k][1],
                          Names |-> shape[k][2]]] :
            shape \in [1..n -> ListedImages \X ListedNames]} :
        n \in 0..MaxContainers}

\* NetworkSettings.Ports of a container: published host:port per container port
PortMaps ==
    {("4566/tcp" :> "1.0.0.0:9566") @@ ("4567/tcp" :> "1.0.0.0:9567"),
     ("4566/tcp" :> "localhost:32768") @@ ("4567/tcp" :> "localhost:32769")}

\* SDK identifiers and regions the caller resolves
ServiceIDs ==
    {"sqs", "s3", "email", "secretsmanager", "monitoring", "iam", "ses", "ec2"}

Regions == {"us-east-1", "us-west-2"}

\* ------------------------------------------------------------------- state
VARIABLES
    heap,         \* the caller's Service Set, by address
    lastService,  \* the last NewLocalstackService call: <<[name, out]>>
    pc,           \* where the caller / the construction stands
    args,         \* the arguments of newPersistentLocalstack, once called
    containers,   \* getLocalstack's local: the list result while in scope
    localstack,   \* newPersistentLocalstack's local: the resolved resource
    i,            \* the readiness loop's position in the Service Set
    calls,        \* the calls made on the DockerWrapper, in order
    returned,     \* what newPersistentLocalstack returned: <<[handle, err]>>
    ep,           \* the last EndpointFor call: <<[service, region, out]>>
    runtime,      \* ids of the containers resolved here that docker still holds
    destroyed,    \* the last Destroy call: <<[connected, purges, err]>>, purges
                  \* being what each pool.Purge call of it returned
    sess,         \* the last CreateAWSSession call: <<[Config]>>
    setop,        \* the last Contains or Sort call on the Service Set
    log,          \* the lines the resolved container has written so far
    attempt,      \* the check invocations the running Retry call has made
    checked,      \* the last invocation of the check function
    first,        \* the construction before this one, once a second was started:
                  \* <<[args, calls, returned, listed]>>
    peer          \* the locals of a second construction running at the same
                  \* time, while the other one has the processor:
                  \* <<[pc, args, containers, localstack, i, calls, returned]>>

\* the readiness polling looked at one check at a time
readiness == << log, attempt, checked >>

\* what the construction and the resolver never touch
aux == << sess, setop, readiness, first, peer >>

\* what the calls on the Service Set alone never touch
construction == << lastService, pc, args, containers, localstack, i, calls,
                  returned, ep, runtime, destroyed >>

vars == << heap, lastService, pc, args, containers, localstack, i, calls,
           returned, ep, runtime, destroyed, aux >>

Init ==
    /\ heap = (ServicesPtr :> << >>)
    /\ lastService = Nil
    /\ pc = "build"
    /\ args = Nil
    /\ containers = << >>
    /\ localstack = Nil
    /\ i = 0
    /\ calls = << >>
    /\ returned = Nil
    /\ ep = Nil
    /\ runtime = {}
    /\ destroyed = Nil
    /\ sess = Nil
    /\ setop = Nil
    /\ log = << >>
    /\ attempt = 0
    /\ checked = Nil
    /\ first = Nil
    /\ peer = Nil

\* ------------------------------------------------- the caller builds the set
\* svc, _ := NewLocalstackService(name), the result looked at and dropped
ProbeService(name) ==
    /\ pc = "build"
    /\ lastService' = NonNil([name |-> name, out |-> NewLocalstackService(name)])
    /\ UNCHANGED << heap, pc, args, containers, localstack, i, calls, returned, ep,
                    runtime, destroyed, aux >>

\* svc, err := NewLocalstackService(name); the descriptor joins the Service Set
AddService(name) ==
    /\ pc = "build"
    /\ Len(heap[ServicesPtr]) < MaxServices
    /\ LET out == NewLocalstackService(name) IN
        /\ lastService' = NonNil([name |-> name, out |-> out])
        /\ heap' = IF IsNil(out.err)
                   THEN [heap EXCEPT ![ServicesPtr] = Append(@, Deref(out.svc))]
                   ELSE heap
    /\ UNCHANGED << pc, args, containers, localstack, i, calls, returned, ep,
                    runtime, destroyed, aux >>

\* ------------------------------------------------------------- construction
\* variant: only the repository part of the image is compared
MatchesRepositoryOnly(c, name, repository, tag) ==
    /\ Len(c.Image) > Len(repository)
    /\ SubSeq(c.Image, 1, Len(repository) + 1) = repository \o ":"
    /\ \E j \in 1..Len(c.Names) : c.Names[j] = "/" \o name

\* variant: the image is not compared
MatchesAnyImage(c, name, repository, tag) ==
    \E j \in 1..Len(c.Names) : c.Names[j] = "/" \o name

\* variant: the listed name is compared with the name as given, no slash
MatchesBareName(c, name, repository, tag) ==
    /\ c.Image = repository \o ":" \o tag
    /\ \E j \in 1..Len(c.Names) : c.Names[j] = name

\* getLocalstack's test of one listed container (both nested conditions)
Matches(c, name, repository, tag) ==
    /\ c.Image = repository \o ":" \o tag
    /\ \E j \in 1..Len(c.Names) : c.Names[j] = "/" \o name

\* variant: the loop keeps the last match instead of returning at the first
LastMatch(cs, name, repository, tag) ==
    LET hits == {k \in 1..Len(cs) : Matches(cs[k], name, repository, tag)} IN
    IF hits = {} THEN 0 ELSE CHOOSE k \in hits : \A m \in hits : m <= k

\* getLocalstack's loop: the position of the container it returns from, 0 if
\* the loop runs to its end
FirstMatch(cs, name, repository, tag) ==
    LET hits == {k \in 1..Len(cs) : Matches(cs[k], name, repository, tag)} IN
    IF hits = {} THEN 0 ELSE CHOOSE k \in hits : \A m \in hits : k <= m

\* variant: the enablement string is left out of SERVICES
RunOptionsNoServices(collection, name, repository, tag, data) ==
    [Repository |-> repository, Tag |-> tag, Name |-> name,
     Env |-> << "SERVICES=" >>, Mounts |-> << >>]

\* variant: the container is given no name
RunOptionsNoName(collection, name, repository, tag, data) ==
    [Repository |-> repository, Tag |-> tag, Name |-> "",
     Env |-> << "SERVICES=" \o GetServiceMap(collection) >>, Mounts |-> << >>]

\* the dockertest.RunOptions newPersistentLocalstack builds
RunOptions(collection, name, repository, tag, data) ==
    LET env == << "SERVICES=" \o GetServiceMap(collection) >> IN
    IF Len(data) > 0
    THEN [Repository |-> repository, Tag |-> tag, Name |-> name,
          Env |-> Append(env, "DATA_DIR=" \o data),
          Mounts |-> << "/tmp/localstack/data:/tmp/localstack/data" >>]
    ELSE [Repository |-> repository, Tag |-> tag, Name |-> name,
          Env |-> env, Mounts |-> << >>]

\* the caller calls newPersistentLocalstack(services, wrapper, name, ...); the
\* descriptor pointers it got from NewLocalstackService are used no more
Construct(name, tag, data) ==
    /\ pc = "build"
    /\ args' = NonNil([services |-> ServicesPtr, name |-> name,
                       repository |-> LocalstackRepository, tag |-> tag,
                       data |-> data])
    /\ lastService' = Nil
    /\ pc' = "getLocalstack"
    /\ UNCHANGED << heap, containers, localstack, i, calls, returned, ep, runtime,
                    destroyed, aux >>

\* the arguments NewPersistentSpecificLocalstack hands to newPersistentLocalstack
NewPersistentSpecificLocalstack(name, repository, tag, data) ==
    [services |-> ServicesPtr, name |-> name, repository |-> repository,
     tag |-> tag, data |-> data]

NewSpecificLocalstack(name, repository, tag) ==
    NewPersistentSpecificLocalstack(name, repository, tag, "")

NewNamedPersistentLocalstack(name, data) ==
    NewPersistentSpecificLocalstack(name, LocalstackRepository, "latest", data)

\* variant: the data path is passed in the name's position
NewPersistentLocalstackDataAsName(data) ==
    NewPersistentSpecificLocalstack(data, LocalstackRepository, "latest", "")

NewPersistentLocalstack(data) ==
    NewPersistentSpecificLocalstack("", LocalstackRepository, "latest", data)

NewLocalstack ==
    NewSpecificLocalstack("", LocalstackRepository, "latest")

\* the caller calls NewLocalstack(services)
CallNewLocalstack ==
    /\ pc = "build"
    /\ args' = NonNil(NewLocalstack)
    /\ lastService' = Nil
    /\ pc' = "getLocalstack"
    /\ UNCHANGED << heap, containers, localstack, i, calls, returned, ep, runtime,
                    destroyed, aux >>

\* the caller calls NewPersistentLocalstack(services, data)
CallNewPersistentLocalstack(data) ==
    /\ pc = "build"
    /\ args' = NonNil(NewPersistentLocalstack(data))
    /\ lastService' = Nil
    /\ pc' = "getLocalstack"
    /\ UNCHANGED << heap, containers, localstack, i, calls, returned, ep, runtime,
                    destroyed, aux >>

\* the caller calls NewNamedPersistentLocalstack(services, name, data)
CallNewNamedPersistentLocalstack(name, data) ==
    /\ pc = "build"
    /\ args' = NonNil(NewNamedPersistentLocalstack(name, data))
    /\ lastService' = Nil
    /\ pc' = "getLocalstack"
    /\ UNCHANGED << heap, containers, localstack, i, calls, returned, ep, runtime,
                    destroyed, aux >>

\* the caller calls NewSpecificLocalstack(services, name, repository, tag)
CallNewSpecificLocalstack(name, tag) ==
    /\ pc = "build"
    /\ args' = NonNil(NewSpecificLocalstack(name, LocalstackRepository, tag))
    /\ lastService' = Nil
    /\ pc' = "getLocalstack"
    /\ UNCHANGED << heap, containers, localstack, i, calls, returned, ep, runtime,
                    destroyed, aux >>

\* variant: the handle is returned along with the error
ReturnErrorWithHandle(msg) ==
    /\ returned' = NonNil([handle |-> NonNil([Resource |-> localstack,
                                             Services |-> Deref(args).services]),
                           err |-> Errorf(msg)])
    /\ pc' = "done"
    /\ i' = 0

\* return nil, fmt.Errorf(msg)
ReturnError(msg) ==
    /\ returned' = NonNil([handle |-> Nil, err |-> Errorf(msg)])
    /\ pc' = "done"
    /\ i' = 0

\* variant: the handle is returned without the readiness loop
ResolvedSkipLoop(resource) ==
    /\ localstack' = NonNil(resource)
    /\ i' = 0
    /\ pc' = "done"
    /\ returned' = NonNil([handle |-> NonNil([Resource |-> NonNil(resource),
                                             Services |-> Deref(args).services]),
                           err |-> Nil])

\* variant: the resolved container is not looked at and a container is created
ResolvedCreatesAnyway(resource) ==
    /\ localstack' = NonNil(resource)
    /\ pc' = "create"
    /\ UNCHANGED << i, returned >>

\* the container is resolved: the readiness loop starts, and with nothing to
\* poll the handle is returned at once
Resolved(resource) ==
    /\ localstack' = NonNil(resource)
    /\ IF Len(heap[Deref(args).services]) = 0
       THEN /\ i' = 0
            /\ pc' = "done"
            /\ returned' = NonNil([handle |-> NonNil([Resource |-> NonNil(resource),
                                                     Services |-> Deref(args).services]),
                                   err |-> Nil])
       ELSE /\ i' = 1
            /\ pc' = "ready"
            /\ UNCHANGED returned

\* variant: the list error is dropped and a container is created
ListFailedFallsThrough(e) ==
    /\ pc' = "create"
    /\ UNCHANGED << containers, returned, i >>

\* ListContainers reported the error e
ListFailed(e) ==
    /\ ReturnError("unable to retrieve docker containers: " \o e)
    /\ UNCHANGED containers

\* getLocalstack with a name: ListContainers, which answers with an error or
\* with one of lists, then the scan of its result
GetLocalstackList(lists) ==
    /\ pc = "getLocalstack"
    /\ Deref(args).name # ""
    /\ \/ \E e \in DockerErrors :
            /\ calls' = Append(calls, [op |-> "ListContainers", ok |-> FALSE,
                                       err |-> e])
            /\ ListFailed(e)
       \/ \E cs \in lists :
            /\ calls' = Append(calls, [op |-> "ListContainers", ok |-> TRUE])
            /\ containers' = cs
            /\ pc' = IF FirstMatch(cs, Deref(args).name, Deref(args).repository,
                                   Deref(args).tag) # 0
                     THEN "inspect" ELSE "create"
            /\ UNCHANGED << returned, i >>
    /\ UNCHANGED << heap, lastService, args, localstack, ep, runtime, destroyed >>

\* the listing is whatever the runtime holds
ListContainers ==
    /\ GetLocalstackList(ContainerLists)
    /\ UNCHANGED aux

\* variant: the inspect error is dropped and a container is created
InspectFailedFallsThrough(id, e) ==
    /\ pc' = "create"
    /\ UNCHANGED << localstack, returned, i >>

\* InspectContainer(id) reported the error e
InspectFailed(id, e) ==
    /\ ReturnError("unable to inspect container " \o id \o ": " \o e)
    /\ UNCHANGED localstack

\* getLocalstack found a match: InspectContainer(c.ID), then return
InspectContainer ==
    /\ pc = "inspect"
    /\ LET a == Deref(args)
           c == containers[FirstMatch(containers, a.name, a.repository, a.tag)] IN
        \/ \E e \in DockerErrors :
            /\ calls' = Append(calls, [op |-> "InspectContainer", id |-> c.ID,
                                       ok |-> FALSE, err |-> e])
            /\ InspectFailed(c.ID, e)
            /\ UNCHANGED runtime
        \/ \E ports \in PortMaps :
            LET container == [ID |-> c.ID, Ports |-> ports] IN
            /\ calls' = Append(calls, [op |-> "InspectContainer", id |-> c.ID,
                                       ok |-> TRUE, container |-> container])
            /\ Resolved([Container |-> container])
            /\ runtime' = runtime \cup {c.ID}
    /\ containers' = << >>
    /\ UNCHANGED << heap, lastService, args, ep, destroyed, aux >>

\* variant: a failed run is tried again
RunFailedRunsAgain(e) ==
    /\ pc' = "create"
    /\ UNCHANGED << localstack, returned, i >>

\* RunWithOptions reported the error e
RunFailed(e) ==
    /\ ReturnError("could not start resource: " \o e)
    /\ UNCHANGED localstack

\* getLocalstack returned nil, nil: RunWithOptions(options)
RunWithOptions ==
    /\ \/ pc = "create"
       \/ pc = "getLocalstack" /\ Deref(args).name = ""
    /\ LET a == Deref(args)
           options == RunOptions(heap[a.services], a.name, a.repository, a.tag,
                                 a.data) IN
        \/ \E e \in DockerErrors :
            /\ calls' = Append(calls, [op |-> "RunWithOptions", options |-> options,
                                       ok |-> FALSE, err |-> e])
            /\ RunFailed(e)
            /\ UNCHANGED runtime
        \/ \E ports \in PortMaps :
            LET resource == [Container |-> [ID |-> "new", Ports |-> ports]] IN
            /\ calls' = Append(calls, [op |-> "RunWithOptions", options |-> options,
                                       ok |-> TRUE, resource |-> resource])
            /\ Resolved(resource)
            /\ runtime' = runtime \cup {resource.Container.ID}
    /\ containers' = << >>
    /\ UNCHANGED << heap, lastService, args, ep, destroyed, aux >>

\* variant: the loop polls the same service again instead of moving on
RetryOkSameService(collection) ==
    IF Len(collection) = 1
    THEN /\ i' = 0
         /\ pc' = "done"
         /\ returned' = NonNil([handle |-> NonNil([Resource |-> localstack,
                                                  Services |-> Deref(args).services]),
                                err |-> Nil])
    ELSE /\ i' = i
         /\ UNCHANGED << pc, returned >>

\* what follows a Retry that reported success: the next service, or the handle
RetryOk(collection) ==
    IF i = Len(collection)
    THEN /\ i' = 0
         /\ pc' = "done"
         /\ returned' = NonNil([handle |-> NonNil([Resource |-> localstack,
                                                  Services |-> Deref(args).services]),
                                err |-> Nil])
    ELSE /\ i' = i + 1
         /\ UNCHANGED << pc, returned >>

\* variant: the error of Retry is returned together with a handle
RetryFailedReturnsHandle(collection, e) ==
    /\ returned' = NonNil([handle |-> NonNil([Resource |-> localstack,
                                             Services |-> Deref(args).services]),
                           err |-> Errorf("unable to connect to "
                                            \o collection[i].Name \o ": " \o e)])
    /\ pc' = "done"
    /\ i' = 0

\* variant: the error of Retry is dropped and the loop goes on
RetryFailedGoesOn(collection, e) ==
    RetryOk(collection)

\* what follows a Retry that reported the error e
RetryFailed(collection, e) ==
    ReturnError("unable to connect to " \o collection[i].Name \o ": " \o e)

\* one turn of the readiness loop: wrapper.Retry(check) for the i-th service
Retry ==
    /\ pc = "ready"
    /\ LET collection == heap[Deref(args).services] IN
        \/ /\ calls' = Append(calls, [op |-> "Retry", i |-> i,
                                      service |-> collection[i].Name, ok |-> TRUE])
           /\ RetryOk(collection)
        \/ \E e \in DockerErrors :
           /\ calls' = Append(calls, [op |-> "Retry", i |-> i,
                                      service |-> collection[i].Name, ok |-> FALSE,
                                      err |-> e])
           /\ RetryFailed(collection, e)
    /\ UNCHANGED << heap, lastService, args, containers, localstack, ep, runtime,
                    destroyed, aux >>

\* ------------------------------------------------------- readiness, by check
\* the error docker.NewClientFromEnv reports
ClientErrors == {"invalid endpoint"}

\* the error client.Logs reports
LogsErrors == {"no such container"}

\* the lines a container writes; long says the line is longer than the
\* scanner's buffer (bufio.MaxScanTokenSize), text is what it holds
LogLines ==
    {[text |-> "Waiting", long |-> FALSE],
     [text |-> " Ready. ok ", long |-> FALSE],
     [text |-> "ready.", long |-> FALSE],
     [text |-> "Ready.", long |-> TRUE]}

RECURSIVE TrimLeft(_)
TrimLeft(s) ==
    IF Len(s) > 0 /\ SubSeq(s, 1, 1) = " " THEN TrimLeft(SubSeq(s, 2, Len(s))) ELSE s

RECURSIVE TrimRight(_)
TrimRight(s) ==
    IF Len(s) > 0 /\ SubSeq(s, Len(s), Len(s)) = " "
    THEN TrimRight(SubSeq(s, 1, Len(s) - 1)) ELSE s

\* strings.TrimSpace, for lines padded with spaces
TrimSpace(s) == TrimRight(TrimLeft(s))

RECURSIVE ScanExact(_)
\* variant: the trimmed line has to be the text Ready. itself
ScanExact(lines) ==
    IF Len(lines) = 0 THEN Errorf("not Ready")
    ELSE IF lines[1].long THEN Errorf("reading input: bufio.Scanner: token too long")
    ELSE IF TrimSpace(lines[1].text) = "Ready." THEN Nil
    ELSE ScanExact(Tail(lines))

\* variant: only the last line of the log is looked at
ScanLastLine(lines) ==
    IF Len(lines) = 0 THEN Errorf("not Ready")
    ELSE IF lines[Len(lines)].long
    THEN Errorf("reading input: bufio.Scanner: token too long")
    ELSE IF StringsContains(TrimSpace(lines[Len(lines)].text), "Ready.") THEN Nil
    ELSE Errorf("not Ready")

RECURSIVE Scan(_)
\* the scanner loop of the check function: nil at the first line that holds
\* Ready., the scanner's error at a line it cannot hold, "not Ready" at the end
Scan(lines) ==
    IF Len(lines) = 0 THEN Errorf("not Ready")
    ELSE IF lines[1].long THEN Errorf("reading input: bufio.Scanner: token too long")
    ELSE IF StringsContains(TrimSpace(TrimSpace(lines[1].text)), "Ready.") THEN Nil
    ELSE Scan(Tail(lines))

\* the check function handed to Retry, given what NewClientFromEnv and
\* client.Logs return and what the log holds
Check(clientErr, logsErr, id, lines) ==
    IF ~IsNil(clientErr)
    THEN Errorf("unable to create a docker client: " \o Deref(clientErr))
    ELSE IF ~IsNil(logsErr)
    THEN Errorf("unable to retrieve logs for container " \o id \o ": "
                    \o Deref(logsErr))
    ELSE Scan(lines)

\* variant: Retry gives up at the first check that fails
RetryDecisionOnce(err, n) ==
    IF IsNil(err) THEN "ok" ELSE "exhausted"

\* the wrapper's Retry after the n-th check returned err: done, given up, or
\* one more check
RetryDecision(err, n) ==
    IF IsNil(err) THEN "ok"
    ELSE IF n >= RetryBudget THEN "exhausted"
    ELSE "again"

\* the container writes a line
EmulatorLogs(line) ==
    /\ runtime # {}
    /\ Len(log) < MaxLogLines
    /\ log' = Append(log, line)
    /\ UNCHANGED << heap, construction, sess, setop, attempt, checked, first, peer >>

\* wrapper.Retry(check) for the i-th service, one invocation of check at a
\* time; the Retry call returns with the last one
RetryAttempt ==
    /\ pc = "ready"
    /\ \E env \in {[clientErr |-> Nil, logsErr |-> Nil]}
                    \cup {[clientErr |-> Errorf(e), logsErr |-> Nil] : e \in ClientErrors}
                    \cup {[clientErr |-> Nil, logsErr |-> Errorf(e)] : e \in LogsErrors} :
        LET collection == heap[Deref(args).services]
            err == Check(env.clientErr, env.logsErr, Deref(localstack).Container.ID, log)
            n == attempt + 1
            decision == RetryDecision(err, n)
        IN
        /\ checked' = NonNil([i |-> i, n |-> n,
                              total |-> (IF IsNil(checked) THEN 0
                                         ELSE Deref(checked).total) + 1,
                              clientErr |-> env.clientErr, logsErr |-> env.logsErr,
                              seen |-> Len(log), out |-> err])
        /\ IF decision = "ok"
           THEN /\ calls' = Append(calls, [op |-> "Retry", i |-> i,
                                           service |-> collection[i].Name,
                                           ok |-> TRUE])
                /\ RetryOk(collection)
                /\ attempt' = 0
           ELSE IF decision = "exhausted"
           THEN /\ calls' = Append(calls, [op |-> "Retry", i |-> i,
                                           service |-> collection[i].Name,
                                           ok |-> FALSE,
                                           err |-> "reached retry deadline"])
                /\ RetryFailed(collection, "reached retry deadline")
                /\ attempt' = 0
           ELSE /\ attempt' = n
                /\ UNCHANGED << calls, pc, i, returned >>
    /\ UNCHANGED << heap, lastService, args, containers, localstack, ep, runtime,
                    destroyed, sess, setop, log, first, peer >>

\* --------------------------------------------------------- endpoint resolver
\* variant: the emulator's usual address, whatever the resource publishes
GetHostPortUsual(resource, portID) == "localhost:4566"

\* dockertest's Resource.GetHostPort: the published host:port of a port id
GetHostPort(resource, portID) == Deref(resource).Container.Ports[portID]

\* endpoints.DefaultResolver().EndpointFor of the SDK
DefaultResolverEndpointFor(service, region) ==
    [URL |-> "https://" \o service \o "." \o region \o ".amazonaws.com",
     err |-> Nil]

\* variant: every identifier of the mapping gets the emulator URL, enabled or not
EndpointForAnyKnown(ls, collection, service, region) ==
    IF service \in DOMAIN availableServices
    THEN [URL |-> "http://" \o GetHostPort(ls.Resource, "4566/tcp"), err |-> Nil]
    ELSE DefaultResolverEndpointFor(service, region)

\* variant: membership is tested on the identifier that came in
EndpointForByIdentifier(ls, collection, service, region) ==
    IF service \in DOMAIN availableServices /\ Contains(collection, service)
    THEN [URL |-> "http://" \o GetHostPort(ls.Resource, "4566/tcp"), err |-> Nil]
    ELSE DefaultResolverEndpointFor(service, region)

\* Localstack.EndpointFor; collection is *ls.Services
EndpointFor(ls, collection, service, region) ==
    IF \E k \in DOMAIN availableServices :
            k = service /\ Contains(collection, availableServices[service])
    THEN [URL |-> "http://" \o GetHostPort(ls.Resource, "4566/tcp"), err |-> Nil]
    ELSE DefaultResolverEndpointFor(service, region)

\* the caller resolves an endpoint through the handle it was given
CallEndpointFor(service, region) ==
    /\ pc = "done"
    /\ ~IsNil(Deref(returned).handle)
    /\ LET ls == Deref(Deref(returned).handle) IN
        ep' = NonNil([service |-> service, region |-> region,
                      out |-> EndpointFor(ls, heap[ls.Services], service, region)])
    /\ UNCHANGED << heap, lastService, pc, args, containers, localstack, i, calls,
                    returned, runtime, destroyed, aux >>

\* ------------------------------------------------- calls on the Service Set
\* the descriptors a caller can hold
Descriptors ==
    {Deref(NewLocalstackService(name).svc) :
        name \in {n \in PoolNames : IsNil(NewLocalstackService(n).err)}}

\* the Service Sets a caller can have built, duplicates included
ServiceSets == UNION {[1..n -> Descriptors] : n \in 0..MaxSetLen}

\* the names a caller asks Contains for
ContainsNames == {"sqs", "s3", "ses", "", "SQS", "sq"}

\* the caller holds a Service Set and has not constructed anything
InitSet ==
    /\ heap \in {(ServicesPtr :> c) : c \in ServiceSets}
    /\ lastService = Nil
    /\ pc = "build"
    /\ args = Nil
    /\ containers = << >>
    /\ localstack = Nil
    /\ i = 0
    /\ calls = << >>
    /\ returned = Nil
    /\ ep = Nil
    /\ runtime = {}
    /\ destroyed = Nil
    /\ sess = Nil
    /\ setop = Nil
    /\ log = << >>
    /\ attempt = 0
    /\ checked = Nil
    /\ first = Nil
    /\ peer = Nil

\* the caller calls services.Contains(name)
CallContains(name) ==
    /\ pc = "build"
    /\ setop' = NonNil([op |-> "Contains", name |-> name,
                        before |-> heap[ServicesPtr],
                        out |-> Contains(heap[ServicesPtr], name)])
    /\ UNCHANGED << heap, construction, sess, readiness, first, peer >>

\* the caller calls services.Sort()
CallSort ==
    /\ pc = "build"
    /\ LET sorted == Sort(ServicesPtr, heap[ServicesPtr]) IN
        /\ heap' = [heap EXCEPT ![ServicesPtr] = sorted.elements]
        /\ setop' = NonNil([op |-> "Sort", before |-> heap[ServicesPtr],
                            out |-> sorted.out])
    /\ UNCHANGED << construction, sess, readiness, first, peer >>

\* -------------------------------------------------------------------- session
\* variant: no resolver is set, the SDK's default resolver stays
CreateAWSSessionDefaultResolver(ls) ==
    [Config |-> [Region |-> "us-east-1",
                 EndpointResolver |-> Nil,
                 DisableSSL |-> TRUE,
                 S3ForcePathStyle |-> TRUE,
                 Credentials |-> [AccessKeyID |-> "a", SecretAccessKey |-> "b",
                                  SessionToken |-> "c"]]]

\* Localstack.CreateAWSSession: the session made from the aws.Config; the
\* resolver is *ls, the handle's value
CreateAWSSession(ls) ==
    [Config |-> [Region |-> "us-east-1",
                 EndpointResolver |-> NonNil(ls),
                 DisableSSL |-> TRUE,
                 S3ForcePathStyle |-> TRUE,
                 Credentials |-> [AccessKeyID |-> "a", SecretAccessKey |-> "b",
                                  SessionToken |-> "c"]]]

\* the caller calls result.CreateAWSSession() on the handle it was given
CallCreateAWSSession ==
    /\ pc = "done"
    /\ ~IsNil(Deref(returned).handle)
    /\ sess' = NonNil(CreateAWSSession(Deref(Deref(returned).handle)))
    /\ UNCHANGED << heap, construction, setop, readiness, first, peer >>

\* ------------------------------------------------------------------ teardown
\* the error dockertest.NewPool("") reports when docker cannot be reached
ConnectErrors == {"cannot connect to the Docker daemon"}

\* the error docker reports when it fails to remove a container it holds
RemoveErrors == {"API error (500)"}

\* pool.Purge(resource), the outcomes [runtime, err] docker can give: a held
\* container is removed, or the removal fails; a container docker does not
\* hold cannot be removed
Purge(held, id) ==
    IF id \in held
    THEN {[runtime |-> held \ {id}, err |-> Nil]}
            \cup {[runtime |-> held, err |-> Errorf(e)] : e \in RemoveErrors}
    ELSE {[runtime |-> held, err |-> Errorf("No such container: " \o id)]}

\* variant: the error of Purge is dropped
PurgeReturnedIgnored(err) == Nil

\* what Destroy returns once pool.Purge has returned err
PurgeReturned(err) ==
    IF IsNil(err) THEN Nil
    ELSE Errorf("could not purge resource: " \o Deref(err))

\* variant: the error of NewPool is dropped
PoolFailedIgnored(e) == Nil

\* what Destroy returns when dockertest.NewPool has returned the error e
PoolFailed(e) == Errorf("could not connect to docker: " \o e)

\* variant: a Destroy that reached docker clears the handle's Resource ports
DestroyClearsPorts ==
    /\ pc = "done"
    /\ ~IsNil(Deref(returned).handle)
    /\ LET ls == Deref(Deref(returned).handle)
           id == Deref(ls.Resource).Container.ID IN
        \/ \E e \in ConnectErrors :
            /\ destroyed' = NonNil([connected |-> FALSE, purges |-> << >>,
                                    err |-> PoolFailed(e)])
            /\ UNCHANGED << runtime, returned >>
        \/ \E out \in Purge(runtime, id) :
            /\ destroyed' = NonNil([connected |-> TRUE, purges |-> << out.err >>,
                                    err |-> PurgeReturned(out.err)])
            /\ runtime' = out.runtime
            /\ returned' = NonNil([handle |-> NonNil([Resource |->
                                        NonNil([Container |-> [ID |-> id,
                                            Ports |-> ("4566/tcp" :> "")]]),
                                        Services |-> ls.Services]),
                                   err |-> Nil])
    /\ UNCHANGED << heap, lastService, pc, args, containers, localstack, i, calls,
                    ep, aux >>

\* the caller calls ls.Destroy() on the handle it was given
Destroy ==
    /\ pc = "done"
    /\ ~IsNil(Deref(returned).handle)
    /\ LET ls == Deref(Deref(returned).handle)
           id == Deref(ls.Resource).Container.ID IN
        \/ \E e \in ConnectErrors :
            /\ destroyed' = NonNil([connected |-> FALSE, purges |-> << >>,
                                    err |-> PoolFailed(e)])
            /\ UNCHANGED runtime
        \/ \E out \in Purge(runtime, id) :
            /\ destroyed' = NonNil([connected |-> TRUE, purges |-> << out.err >>,
                                    err |-> PurgeReturned(out.err)])
            /\ runtime' = out.runtime
    /\ UNCHANGED << heap, lastService, pc, args, containers, localstack, i, calls,
                    returned, ep, aux >>

\* ------------------------------------- the earlier copy, src/unnamed/part_001
\* the earlier NewPersistentLocalstack: data is not handed on
NewPersistentLocalstackEarlier(data) ==
    NewSpecificLocalstack("", LocalstackRepository, "latest")

\* the dockertest.RunOptions the earlier newPersistentLocalstack builds
RunOptionsEarlier(collection, name, repository, tag, data) ==
    LET env == << "SERVICES=" \o GetServiceMap(collection) >> IN
    [Repository |-> repository, Tag |-> tag, Name |-> name,
     Env |-> IF Len(data) > 0 THEN Append(env, "DATA_DIR=" \o data) ELSE env,
     PortBindings |-> ("4566" :> << [HostPort |-> "4566"] >>),
     ExposedPorts |-> << "4566" >>,
     Mounts |-> << >>]

\* the caller calls the earlier NewLocalstack(services)
CallNewLocalstackEarlier ==
    /\ pc = "build"
    /\ args' = NonNil(NewLocalstack @@ [supplied |-> ""])
    /\ lastService' = Nil
    /\ pc' = "getLocalstack"
    /\ UNCHANGED << heap, containers, localstack, i, calls, returned, ep, runtime,
                    destroyed, aux >>

\* the caller calls the earlier NewPersistentLocalstack(services, data);
\* supplied keeps the data path the caller passed
CallNewPersistentLocalstackEarlier(data) ==
    /\ pc = "build"
    /\ args' = NonNil(NewPersistentLocalstackEarlier(data) @@ [supplied |-> data])
    /\ lastService' = Nil
    /\ pc' = "getLocalstack"
    /\ UNCHANGED << heap, containers, localstack, i, calls, returned, ep, runtime,
                    destroyed, aux >>

\* the earlier getLocalstack returned nil, nil for the empty name:
\* RunWithOptions(options)
RunWithOptionsEarlier ==
    /\ pc = "getLocalstack"
    /\ Deref(args).name = ""
    /\ LET a == Deref(args)
           options == RunOptionsEarlier(heap[a.services], a.name, a.repository,
                                        a.tag, a.data) IN
        \/ \E e \in DockerErrors :
            /\ calls' = Append(calls, [op |-> "RunWithOptions", options |-> options,
                                       ok |-> FALSE, err |-> e])
            /\ ReturnError("Could not start resource: " \o e)
            /\ UNCHANGED << localstack, runtime >>
        \/ \E ports \in PortMaps :
            LET resource == [Container |-> [ID |-> "new", Ports |-> ports]] IN
            /\ calls' = Append(calls, [op |-> "RunWithOptions", options |-> options,
                                       ok |-> TRUE, resource |-> resource])
            /\ Resolved(resource)
            /\ runtime' = runtime \cup {resource.Container.ID}
    /\ containers' = << >>
    /\ UNCHANGED << heap, lastService, args, ep, destroyed, aux >>

\* one turn of the earlier readiness loop
RetryEarlier ==
    /\ pc = "ready"
    /\ LET collection == heap[Deref(args).services] IN
        \/ /\ calls' = Append(calls, [op |-> "Retry", i |-> i,
                                      service |-> collection[i].Name, ok |-> TRUE])
           /\ RetryOk(collection)
        \/ \E e \in DockerErrors :
           /\ calls' = Append(calls, [op |-> "Retry", i |-> i,
                                      service |-> collection[i].Name, ok |-> FALSE,
                                      err |-> e])
           /\ ReturnError("Unable to connect to " \o collection[i].Name \o ": " \o e)
    /\ UNCHANGED << heap, lastService, args, containers, localstack, ep, runtime,
                    destroyed, aux >>

\* ------------------------------------------------------------ specification
Next ==
    \/ \E name \in CandidateNames : ProbeService(name)
    \/ \E name \in PoolNames : AddService(name)
    \/ \E name \in Names, tag \in Tags, data \in DataPaths : Construct(name, tag, data)
    \/ CallNewLocalstack
    \/ \E data \in DataPaths : CallNewPersistentLocalstack(data)
    \/ \E name \in Names, data \in DataPaths : CallNewNamedPersistentLocalstack(name, data)
    \/ \E name \in Names, tag \in Tags : CallNewSpecificLocalstack(name, tag)
    \/ ListContainers
    \/ InspectContainer
    \/ RunWithOptions
    \/ Retry
    \/ \E service \in ServiceIDs, region \in Regions : CallEndpointFor(service, region)
    \/ Destroy

Spec == Init /\ [][Next]_vars

\* a caller that only works on its Service Set
NextSet ==
    \/ \E name \in ContainsNames : CallContains(name)
    \/ CallSort

SpecSet == InitSet /\ [][NextSet]_vars

\* the Service Sets the readiness polling is followed on
ReadySets ==
    {SubSeq(<< [Name |-> "sqs", Protocol |-> "tcp", Port |-> ServicePort],
               [Name |-> "s3", Protocol |-> "tcp", Port |-> ServicePort],
               [Name |-> "ses", Protocol |-> "tcp", Port |-> ServicePort] >>, 1, n) :
        n \in 0..MaxServices}

\* the caller holds one of these sets
InitReady ==
    /\ heap \in {(ServicesPtr :> c) : c \in ReadySets}
    /\ lastService = Nil
    /\ pc = "build"
    /\ args = Nil
    /\ containers = << >>
    /\ localstack = Nil
    /\ i = 0
    /\ calls = << >>
    /\ returned = Nil
    /\ ep = Nil
    /\ runtime = {}
    /\ destroyed = Nil
    /\ sess = Nil
    /\ setop = Nil
    /\ log = << >>
    /\ attempt = 0
    /\ checked = Nil
    /\ first = Nil
    /\ peer = Nil

\* a construction followed check by check, the container writing its log
NextReady ==
    \/ CallNewLocalstack
    \/ \E name \in Names, tag \in Tags : CallNewSpecificLocalstack(name, tag)
    \/ ListContainers
    \/ InspectContainer
    \/ RunWithOptions
    \/ \E line \in LogLines : EmulatorLogs(line)
    \/ RetryAttempt

SpecReady == InitReady /\ [][NextReady]_vars

\* what the container writes while it starts: a line without Ready. or one
\* with it
StartupLines == {line \in LogLines : ~line.long /\ line.text # "ready."}

\* a construction that runs its own container and polls it
NextPolling ==
    \/ CallNewLocalstack
    \/ RunWithOptions
    \/ \E line \in StartupLines : EmulatorLogs(line)
    \/ RetryAttempt

\* every call on the wrapper returns; the caller and the container are free
\* to do nothing
SpecReadyFair ==
    /\ InitReady
    /\ [][NextPolling]_vars
    /\ WF_vars(RunWithOptions \/ RetryAttempt)

\* a caller that constructs and asks the handle for a session
NextSession ==
    \/ \E name \in PoolNames : AddService(name)
    \/ CallNewLocalstack
    \/ \E name \in Names, tag \in Tags : CallNewSpecificLocalstack(name, tag)
    \/ ListContainers
    \/ InspectContainer
    \/ RunWithOptions
    \/ Retry
    \/ CallCreateAWSSession

SpecSession == Init /\ [][NextSession]_vars

\* a caller of the earlier copy's constructors that take no name
NextEarlier ==
    \/ \E name \in PoolNames : AddService(name)
    \/ CallNewLocalstackEarlier
    \/ \E data \in DataPaths : CallNewPersistentLocalstackEarlier(data)
    \/ RunWithOptionsEarlier
    \/ RetryEarlier

SpecEarlier == Init /\ [][NextEarlier]_vars

\* --------------------------------------------- one construction after another
\* what docker lists for the container a construction with arguments a started
CreatedBy(a) ==
    [ID |-> "new", Image |-> a.repository \o ":" \o a.tag, Names |-> << "/" \o a.name >>]

\* the call history cs has a RunWithOptions that started a container
Created(cs) == \E k \in 1..Len(cs) : cs[k].op = "RunWithOptions" /\ cs[k].ok

\* the list cs with c put in at position k
InsertAt(cs, k, c) == SubSeq(cs, 1, k - 1) \o << c >> \o SubSeq(cs, k, Len(cs))

\* what ListContainers can answer after the construction f, which started a
\* container: containers of other names (a name belongs to one container)
\* and, unless it was removed meanwhile, the container f started in any place
\* among them
RuntimeLists(f) ==
    LET others == {cs \in ContainerLists :
                            /\ Len(cs) < MaxContainers
                            /\ \A k \in 1..Len(cs) : \A j \in 1..Len(cs[k].Names) :
                                    cs[k].Names[j] # "/" \o f.args.name}
    IN  others \cup UNION {{InsertAt(cs, k, CreatedBy(f.args)) :
                               k \in 1..(Len(cs) + 1)} : cs \in others}

\* the caller, a construction that started a container being over, calls
\* NewSpecificLocalstack(services, name, repository, tag) once more
CallNewSpecificLocalstackAgain(name, tag) ==
    /\ pc = "done"
    /\ IsNil(first)
    /\ Created(calls)
    /\ first' = NonNil([args |-> Deref(args), calls |-> calls,
                        returned |-> Deref(returned), listed |-> Nil])
    /\ args' = NonNil(NewSpecificLocalstack(name, LocalstackRepository, tag))
    /\ lastService' = Nil
    /\ pc' = "getLocalstack"
    /\ calls' = << >>
    /\ returned' = Nil
    /\ localstack' = Nil
    /\ i' = 0
    /\ UNCHANGED << heap, containers, ep, runtime, destroyed, sess, setop, readiness, peer >>

\* ListContainers of the second construction: the runtime answers with what
\* it holds by now
ListContainersAgain ==
    /\ ~IsNil(first)
    /\ GetLocalstackList(RuntimeLists(Deref(first)))
    /\ first' = NonNil([Deref(first) EXCEPT
                            !.listed = IF calls'[Len(calls')].ok
                                       THEN NonNil(containers') ELSE Nil])
    /\ UNCHANGED << sess, setop, readiness, peer >>

\* two constructions, one after the other, on one runtime
NextTwice ==
    \/ \E name \in Names, tag \in Tags : CallNewSpecificLocalstack(name, tag)
    \/ IsNil(first) /\ ListContainers
    \/ InspectContainer
    \/ RunWithOptions
    \/ Retry
    \/ \E name \in Names, tag \in Tags : CallNewSpecificLocalstackAgain(name, tag)
    \/ ListContainersAgain

SpecTwice == InitReady /\ [][NextTwice]_vars

\* ------------------------------------------------ two constructions at once
\* the locals of a construction whose caller has not called yet
Fresh ==
    [pc |-> "build", args |-> Nil, containers |-> << >>, localstack |-> Nil,
     i |-> 0, calls |-> << >>, returned |-> Nil]

\* what ListContainers can answer while the construction with locals f runs
\* beside this one: once f has started its container, that container in any
\* place among containers of other names; before that, any containers
SharedLists(f) ==
    LET few == {cs \in ContainerLists : Len(cs) < MaxContainers} IN
    IF Created(f.calls)
    THEN LET others == {cs \in few :
                            \A k \in 1..Len(cs) : \A j \in 1..Len(cs[k].Names) :
                                cs[k].Names[j] # "/" \o Deref(f.args).name}
         IN  UNION {{InsertAt(cs, k, CreatedBy(Deref(f.args))) :
                        k \in 1..(Len(cs) + 1)} : cs \in others}
    ELSE few

\* ListContainers of one of two constructions that run at the same time
ListContainersBeside ==
    /\ ~IsNil(peer)
    /\ GetLocalstackList(SharedLists(Deref(peer)))
    /\ UNCHANGED aux

\* the other construction gets the processor: nothing in newPersistentLocalstack
\* keeps two callers apart
Switch ==
    /\ ~IsNil(peer)
    /\ peer' = NonNil([pc |-> pc, args |-> args, containers |-> containers,
                       localstack |-> localstack, i |-> i, calls |-> calls,
                       returned |-> returned])
    /\ pc' = Deref(peer).pc
    /\ args' = Deref(peer).args
    /\ containers' = Deref(peer).containers
    /\ localstack' = Deref(peer).localstack
    /\ i' = Deref(peer).i
    /\ calls' = Deref(peer).calls
    /\ returned' = Deref(peer).returned
    /\ UNCHANGED << heap, lastService, ep, runtime, destroyed, sess, setop,
                    readiness, first >>

\* two callers, each about to construct, on one runtime; what the Service Set
\* holds plays no part before the container is resolved
InitBeside ==
    /\ heap \in {(ServicesPtr :> c) : c \in {r \in ReadySets : Len(r) <= 1}}
    /\ lastService = Nil
    /\ pc = "build"
    /\ args = Nil
    /\ containers = << >>
    /\ localstack = Nil
    /\ i = 0
    /\ calls = << >>
    /\ returned = Nil
    /\ ep = Nil
    /\ runtime = {}
    /\ destroyed = Nil
    /\ sess = Nil
    /\ setop = Nil
    /\ log = << >>
    /\ attempt = 0
    /\ checked = Nil
    /\ first = Nil
    /\ peer = NonNil(Fresh)

\* two constructions up to the resolution of their container, interleaved
NextBeside ==
    \/ \E name \in Names, tag \in Tags : CallNewSpecificLocalstack(name, tag)
    \/ ListContainersBeside
    \/ InspectContainer
    \/ RunWithOptions
    \/ Switch

SpecBeside == InitBeside /\ [][NextBeside]_vars

\* ------------------------------------------------- vocabulary of the claims
\* the Service Set passed to the construction
Collection == heap[Deref(args).services]

\* the positions in the call history of the calls of one operation
CallsOf(op) == {k \in 1..Len(calls) : calls[k].op = op}

\* how often op was called on the wrapper
NumCalls(op) == Cardinality(CallsOf(op))

\* the string s ends with suffix
HasSuffix(s, suffix) ==
    /\ Len(s) >= Len(suffix)
    /\ SubSeq(s, Len(s) - Len(suffix) + 1, Len(s)) = suffix

Done == pc = "done"

ReturnedHandle == Deref(returned).handle

ReturnedErr == Deref(returned).err

\* the container was resolved: an inspect or a run succeeded
ResolvedBy(op) == \E k \in CallsOf(op) : calls[k].ok

\* ---------------------------------------------------------------- claims
\* C1: fail-fast readiness.  Whenever a Retry call reported failure for the
\* n-th service of the set, that call is the last call made on the wrapper,
\* exactly n Retry calls were made (none for a later service), the
\* construction has returned a nil handle and a non-nil error naming the n-th
\* service, and the container had been resolved either by a successful inspect
\* with no run at all, or by exactly one run.
C1FailFast ==
    \A k \in CallsOf("Retry") :
        ~calls[k].ok =>
            LET n == calls[k].i IN
            /\ Done
            /\ k = Len(calls)
            /\ NumCalls("Retry") = n
            /\ \A m \in CallsOf("Retry") : calls[m].i <= n
            /\ \A m \in CallsOf("Retry") : m < k => calls[m].ok
            /\ IsNil(ReturnedHandle)
            /\ ~IsNil(ReturnedErr)
            /\ StringsContains(Deref(ReturnedErr), "to " \o Collection[n].Name \o ":")
            /\ \/ ResolvedBy("InspectContainer") /\ NumCalls("RunWithOptions") = 0
               \/ ~ResolvedBy("InspectContainer") /\ NumCalls("RunWithOptions") = 1

\* a fresh container was started and the second service's Retry failed
C1Witness ==
    /\ Done
    /\ NumCalls("RunWithOptions") = 1
    /\ \E k \in CallsOf("Retry") : ~calls[k].ok /\ calls[k].i = 2
    /\ IsNil(ReturnedHandle)

\* C2: readiness polling when everything succeeds.  The Retry calls made so
\* far are numbered 1, 2, ... in the order made and the i-th belongs to the
\* i-th service of the set; once the construction is over with the container
\* resolved (discovered or created) and no Retry failed, there was exactly one
\* Retry call per element of the set and the result is a non-nil handle with
\* a nil error whose Services is the pointer that was passed in.
C2AllReady ==
    /\ \A k \in CallsOf("Retry") :
        /\ calls[k].i = Cardinality({m \in CallsOf("Retry") : m <= k})
        /\ calls[k].service = Collection[calls[k].i].Name
    /\ ( /\ Done
         /\ ResolvedBy("InspectContainer") \/ ResolvedBy("RunWithOptions")
         /\ \A k \in CallsOf("Retry") : calls[k].ok )
       => /\ NumCalls("Retry") = Len(Collection)
          /\ ~IsNil(ReturnedHandle)
          /\ IsNil(ReturnedErr)
          /\ Deref(ReturnedHandle).Services = Deref(args).services

\* a discovered container, a set of two descriptors of the same name, both
\* polled, and the handle returned
C2Witness ==
    /\ Done
    /\ ResolvedBy("InspectContainer")
    /\ Len(Collection) = 2
    /\ Collection[1].Name = Collection[2].Name
    /\ NumCalls("Retry") = 2
    /\ ~IsNil(ReturnedHandle)

\* C3: no partial success.  Nothing is returned before the construction is
\* over, and what it returns is either a non-nil handle with a nil error, the
\* handle's Resource being the container that inspect or run returned, every
\* call on the wrapper having succeeded and every service of the set having
\* had its successful Retry; or a nil handle with a non-nil error.
C3NoPartialSuccess ==
    IF ~Done THEN IsNil(returned)
    ELSE
      \/ /\ ~IsNil(ReturnedHandle)
         /\ IsNil(ReturnedErr)
         /\ ~IsNil(localstack)
         /\ Deref(ReturnedHandle).Resource = localstack
         /\ \/ \E k \in CallsOf("InspectContainer") :
                 calls[k].ok /\ Deref(localstack).Container = calls[k].container
            \/ \E k \in CallsOf("RunWithOptions") :
                 calls[k].ok /\ Deref(localstack) = calls[k].resource
         /\ \A k \in 1..Len(calls) : calls[k].ok
         /\ \A n \in 1..Len(Collection) :
                 \E k \in CallsOf("Retry") : calls[k].i = n /\ calls[k].ok
      \/ /\ IsNil(ReturnedHandle)
         /\ ~IsNil(ReturnedErr)

\* a created container, at least one service polled, the handle returned
C3Witness ==
    /\ Done
    /\ ResolvedBy("RunWithOptions")
    /\ Len(Collection) >= 1
    /\ ~IsNil(ReturnedHandle)
    /\ IsNil(ReturnedErr)

\* a listed container with image <repository>:<tag> and a name entry /<name>
ListedHit(c) ==
    /\ c.Image = Deref(args).repository \o ":" \o Deref(args).tag
    /\ \E j \in 1..Len(c.Names) : c.Names[j] = "/" \o Deref(args).name

\* the list result is in scope: getLocalstack has listed and not yet returned
\* to a caller that went on
Listed == pc \in {"inspect", "create"}

\* the call a step adds to the call history
NewCall == calls'[Len(calls')]

\* C4: discovery hit.  When the list result holds a container with image
\* <repository>:<tag> and a name entry /<name>, the construction goes on to
\* inspect, not to run; the inspect call is made with the id of such a
\* container and, when it succeeds, the inspected container becomes the
\* resolved resource; and a construction that resolved its container by
\* inspect never calls run and returns the inspected container as the
\* handle's Resource.
C4DiscoveryHit ==
    /\ [](Listed /\ (\E k \in 1..Len(containers) : ListedHit(containers[k]))
            => pc = "inspect" /\ NumCalls("RunWithOptions") = 0)
    /\ [][pc = "inspect" =>
            /\ Len(calls') = Len(calls) + 1
            /\ NewCall.op = "InspectContainer"
            /\ \E k \in 1..Len(containers) :
                    ListedHit(containers[k]) /\ NewCall.id = containers[k].ID
            /\ NewCall.ok =>
                    localstack' = NonNil([Container |-> NewCall.container])]_vars
    /\ [](\A k \in CallsOf("InspectContainer") :
            calls[k].ok =>
                /\ NumCalls("RunWithOptions") = 0
                /\ localstack = NonNil([Container |-> calls[k].container])
                /\ Done /\ ~IsNil(ReturnedHandle) =>
                        Deref(ReturnedHandle).Resource = localstack)

\* the second listed container was the match, it was inspected and the handle
\* was returned
C4Witness ==
    /\ Done
    /\ ~IsNil(ReturnedHandle)
    /\ \E k \in CallsOf("InspectContainer") : calls[k].ok /\ calls[k].id = "c2"
    /\ Deref(Deref(ReturnedHandle).Resource).Container.ID = "c2"

\* C5: discovery miss.  When the listing succeeded and no listed container
\* has both the image <repository>:<tag> and a name entry /<name>, discovery
\* has returned no resource and no error and inspect was not called; the next
\* call is run, with image <repository>:<tag>, the supplied name and the
\* environment entry SERVICES=<enablement string>; run is called at most once
\* and never together with inspect; and the handle of a construction that ran
\* a container has the resource run returned as its Resource.
C5DiscoveryMiss ==
    /\ [](Listed /\ ~(\E k \in 1..Len(containers) : ListedHit(containers[k]))
            => /\ pc = "create"
               /\ NumCalls("InspectContainer") = 0
               /\ IsNil(localstack)
               /\ IsNil(returned))
    /\ [][pc = "create" =>
            /\ Len(calls') = Len(calls) + 1
            /\ NewCall.op = "RunWithOptions"
            /\ NewCall.options.Repository \o ":" \o NewCall.options.Tag
                    = Deref(args).repository \o ":" \o Deref(args).tag
            /\ NewCall.options.Name = Deref(args).name
            /\ \E j \in 1..Len(NewCall.options.Env) :
                    NewCall.options.Env[j] = "SERVICES=" \o GetServiceMap(Collection)]_vars
    /\ [](/\ NumCalls("RunWithOptions") <= 1
          /\ NumCalls("RunWithOptions") = 1 => NumCalls("InspectContainer") = 0
          /\ \A k \in CallsOf("RunWithOptions") :
                calls[k].ok /\ Done /\ ~IsNil(ReturnedHandle) =>
                    Deref(ReturnedHandle).Resource = NonNil(calls[k].resource))

\* a named construction listed, found no match, ran a container for a set of
\* two services and returned the handle
C5Witness ==
    /\ Done
    /\ Deref(args).name = "X"
    /\ NumCalls("ListContainers") = 1
    /\ ResolvedBy("RunWithOptions")
    /\ Len(Collection) = 2
    /\ ~IsNil(ReturnedHandle)

\* the URL of the emulator: the published host:port of 4566/tcp of the
\* container the handle holds
EmulatorURL ==
    "http://" \o Deref(Deref(ReturnedHandle).Resource).Container.Ports["4566/tcp"]

\* the identifier of the last EndpointFor call is a key of the mapping and the
\* descriptor name it maps to is in the handle's Service Set
Enabled(service) ==
    /\ service \in DOMAIN availableServices
    /\ \E j \in 1..Len(heap[Deref(ReturnedHandle).Services]) :
            heap[Deref(ReturnedHandle).Services][j].Name = availableServices[service]

\* C6: endpoint resolution, enabled case.  An EndpointFor call with an
\* identifier of the mapping whose descriptor name is in the handle's Service
\* Set returned the emulator URL and no error, whatever the region.
C6EnabledEndpoint ==
    ~IsNil(ep) =>
        (Enabled(Deref(ep).service) =>
            Deref(ep).out = [URL |-> EmulatorURL, err |-> Nil])

\* "email" resolved for a set that holds ses behind another service
C6Witness ==
    /\ ~IsNil(ep)
    /\ Deref(ep).service = "email"
    /\ Deref(ep).region = "us-west-2"
    /\ Len(heap[ServicesPtr]) = 2
    /\ heap[ServicesPtr][2].Name = "ses"
    /\ Deref(ep).out.URL = "http://1.0.0.0:9566"

endpointIds ==
    {"iam", "sts", "logs", "states", "secretsmanager", "ssm", "monitoring",
     "cloudformation", "route53", "email", "redshift", "sqs", "sns", "lambda",
     "firehose", "apigateway", "kinesis", "dynamodb", "streams.dynamodb", "es",
     "s3"}

\* C8: through a handle constructed for the Service Set {sqs, s3}, EndpointFor
\* returns the emulator URL for every identifier of the test's list.
C8TestAssertion ==
    ( /\ ~IsNil(ep)
      /\ Len(heap[ServicesPtr]) = 2
      /\ heap[ServicesPtr][1].Name = "sqs"
      /\ heap[ServicesPtr][2].Name = "s3"
      /\ Deref(ep).service \in endpointIds )
    => Deref(ep).out.URL = EmulatorURL

\* C9: the allow-list and the resolver's mapping agree.  A name that is a
\* target of the mapping is accepted by NewLocalstackService, and a name that
\* NewLocalstackService accepts is a target of the mapping.
C9AllowListAgrees ==
    ~IsNil(lastService) =>
        ( Deref(lastService).name \in
                {availableServices[k] : k \in DOMAIN availableServices}
          <=> IsNil(Deref(lastService).out.err) )

\* C10: list failure.  Whenever ListContainers reported an error, it is the
\* only call made on the wrapper (no inspect, run or retry), the name was not
\* empty, and the construction has returned a nil handle and a non-nil error
\* whose message ends with the underlying error's message after some context.
C10ListFailure ==
    \A k \in CallsOf("ListContainers") :
        ~calls[k].ok =>
            /\ Done
            /\ Len(calls) = 1
            /\ Deref(args).name # ""
            /\ IsNil(ReturnedHandle)
            /\ ~IsNil(ReturnedErr)
            /\ HasSuffix(Deref(ReturnedErr), ": " \o calls[k].err)
            /\ Len(Deref(ReturnedErr)) > Len(calls[k].err) + 2

\* the listing failed with EOF and the construction returned the error
C10Witness ==
    /\ Done
    /\ \E k \in CallsOf("ListContainers") : ~calls[k].ok /\ calls[k].err = "EOF"
    /\ IsNil(ReturnedHandle)
    /\ ReturnedErr = Errorf("unable to retrieve docker containers: EOF")

\* C11: inspect failure.  Whenever InspectContainer reported an error, it is
\* the only inspect call and the last call made on the wrapper, no run and no
\* retry was made, and the construction has returned a nil handle and a
\* non-nil error carrying the container's id and the underlying error.
C11InspectFailure ==
    \A k \in CallsOf("InspectContainer") :
        ~calls[k].ok =>
            /\ Done
            /\ k = Len(calls)
            /\ NumCalls("InspectContainer") = 1
            /\ NumCalls("RunWithOptions") = 0
            /\ NumCalls("Retry") = 0
            /\ IsNil(localstack)
            /\ IsNil(ReturnedHandle)
            /\ ~IsNil(ReturnedErr)
            /\ StringsContains(Deref(ReturnedErr), " " \o calls[k].id \o ": ")
            /\ HasSuffix(Deref(ReturnedErr), ": " \o calls[k].err)

\* the inspect of the first listed container failed and the construction
\* returned the error
C11Witness ==
    /\ Done
    /\ \E k \in CallsOf("InspectContainer") : ~calls[k].ok /\ calls[k].id = "c1"
    /\ ReturnedErr = Errorf("unable to inspect container c1: dummy Error")
    /\ IsNil(ReturnedHandle)

\* C12: run failure.  Whenever RunWithOptions reported an error, it is the
\* only run call and the last call made on the wrapper, no inspect and no
\* retry was made, and the construction has returned a nil handle and a
\* non-nil error whose message ends with the underlying error's message after
\* some context.
C12RunFailure ==
    \A k \in CallsOf("RunWithOptions") :
        ~calls[k].ok =>
            /\ Done
            /\ k = Len(calls)
            /\ NumCalls("RunWithOptions") = 1
            /\ NumCalls("InspectContainer") = 0
            /\ NumCalls("Retry") = 0
            /\ IsNil(ReturnedHandle)
            /\ ~IsNil(ReturnedErr)
            /\ HasSuffix(Deref(ReturnedErr), ": " \o calls[k].err)
            /\ Len(Deref(ReturnedErr)) > Len(calls[k].err) + 2

\* a named construction listed, found nothing, and its run failed
C12Witness ==
    /\ Done
    /\ NumCalls("ListContainers") = 1
    /\ \E k \in CallsOf("RunWithOptions") : ~calls[k].ok /\ calls[k].err = "EOF"
    /\ ReturnedErr = Errorf("could not start resource: EOF")
    /\ Len(Collection) >= 1

\* a listed container that carries the name entry /<name>
ListedName(c) == \E j \in 1..Len(c.Names) : c.Names[j] = "/" \o Deref(args).name

\* the image string <repository>:<tag> the construction asks for
WantedImage == Deref(args).repository \o ":" \o Deref(args).tag

\* C13: exact image match.  A listed container whose image string differs
\* from <repository>:<tag> is never the one inspected, whatever its names;
\* and when every listed container that carries /<name> has such an image,
\* no inspect is made and the next call is run, with the same name.
C13ExactImage ==
    /\ [][pc = "inspect" =>
            \A k \in 1..Len(containers) :
                containers[k].Image # WantedImage => NewCall.id # containers[k].ID]_vars
    /\ [](Listed /\ (\A k \in 1..Len(containers) :
                        ListedName(containers[k]) => containers[k].Image # WantedImage)
            => pc = "create" /\ NumCalls("InspectContainer") = 0)
    /\ [][pc = "create" =>
            /\ NewCall.op = "RunWithOptions"
            /\ NewCall.options.Name = Deref(args).name]_vars

\* the only listed container carries /X but has the repository's other tag,
\* and the construction is about to run a container
C13Witness ==
    /\ pc = "create"
    /\ Deref(args).name = "X"
    /\ Deref(args).tag = LocalstackTag
    /\ Len(containers) = 1
    /\ containers[1].Image = LocalstackRepository \o ":latest"
    /\ containers[1].Names = << "/X" >>

\* C14: first positional match wins.  The inspect call is made with the id of
\* the earliest listed container that has both the image and the name, the
\* containers before it having been skipped; inspect is called at most once
\* in a construction; and the resolved resource is that one container.
C14FirstMatch ==
    /\ [][pc = "inspect" =>
            \E k \in 1..Len(containers) :
                /\ ListedHit(containers[k])
                /\ \A m \in 1..(k - 1) : ~ListedHit(containers[m])
                /\ NewCall.op = "InspectContainer"
                /\ NewCall.id = containers[k].ID
                /\ NewCall.ok => Deref(localstack').Container = NewCall.container]_vars
    /\ [](NumCalls("InspectContainer") <= 1)

\* the listing returned two containers that both have the image and the
\* name, and discovery goes on to inspect
C14Witness ==
    /\ pc = "inspect"
    /\ Len(containers) = 2
    /\ ListedHit(containers[1])
    /\ ListedHit(containers[2])

\* C16: allowed names.  When NewLocalstackService was called with a name of
\* the allow-list, it returned no error and a descriptor with that name,
\* protocol "tcp" and port 4566, whose GetNamePort() is <name>:4566; the name
\* is the rendering without its last five characters.
C16AllowedName ==
    (~IsNil(lastService) /\ \E k \in 1..Len(services) : services[k] = Deref(lastService).name)
    => LET name == Deref(lastService).name
           out == Deref(lastService).out
       IN  /\ IsNil(out.err)
           /\ ~IsNil(out.svc)
           /\ Deref(out.svc) = [Name |-> name, Protocol |-> "tcp", Port |-> 4566]
           /\ GetNamePort(Deref(out.svc)) = name \o ":4566"
           /\ SubSeq(GetNamePort(Deref(out.svc)), 1,
                     Len(GetNamePort(Deref(out.svc))) - 5) = name

\* NewLocalstackService("dynamodbstreams") has returned a descriptor
C16Witness ==
    /\ ~IsNil(lastService)
    /\ Deref(lastService).name = "dynamodbstreams"
    /\ ~IsNil(Deref(lastService).out.svc)
    /\ GetNamePort(Deref(Deref(lastService).out.svc)) = "dynamodbstreams:4566"

RECURSIVE Rendering(_)
\* name1:port1,name2:port2,... built from the last element backwards
Rendering(c) ==
    IF Len(c) = 0 THEN ""
    ELSE (IF Len(c) = 1 THEN "" ELSE Rendering(SubSeq(c, 1, Len(c) - 1)) \o ",")
            \o c[Len(c)].Name \o ":" \o Itoa(c[Len(c)].Port)

\* C18: GetServiceMap of the Service Set is the name:port strings of its
\* elements in set order with a comma between neighbours, the empty string for
\* the empty set; and the first environment entry of every RunWithOptions
\* call is SERVICES= followed by that string.
C18ServiceMap ==
    /\ GetServiceMap(heap[ServicesPtr]) = Rendering(heap[ServicesPtr])
    /\ Len(heap[ServicesPtr]) = 0 => GetServiceMap(heap[ServicesPtr]) = ""
    /\ \A k \in CallsOf("RunWithOptions") :
        /\ Len(calls[k].options.Env) >= 1
        /\ calls[k].options.Env[1] = "SERVICES=" \o Rendering(Collection)

\* a container was run for the Service Set sqs, s3
C18Witness ==
    /\ Len(heap[ServicesPtr]) = 2
    /\ GetServiceMap(heap[ServicesPtr]) = "sqs:4566,s3:4566"
    /\ \E k \in CallsOf("RunWithOptions") :
        calls[k].options.Env[1] = "SERVICES=sqs:4566,s3:4566"

\* C15: no name, no discovery.  NewLocalstack and NewPersistentLocalstack
\* enter the construction with name "" and tag "latest"; a construction with
\* the empty name never calls ListContainers or InspectContainer, its first
\* call is RunWithOptions, and it calls RunWithOptions exactly once.
C15NoNameNoDiscovery ==
    /\ [][(CallNewLocalstack \/ \E data \in DataPaths : CallNewPersistentLocalstack(data))
            => Deref(args').name = "" /\ Deref(args').tag = "latest"]_vars
    /\ []((~IsNil(args) /\ Deref(args).name = "") =>
            /\ NumCalls("ListContainers") = 0
            /\ NumCalls("InspectContainer") = 0
            /\ NumCalls("RunWithOptions") = (IF pc = "getLocalstack" THEN 0 ELSE 1)
            /\ pc # "getLocalstack" => calls[1].op = "RunWithOptions")
    /\ [][(pc = "getLocalstack" /\ Deref(args).name = "")
            => NewCall.op = "RunWithOptions"]_vars

\* a construction without a name, for the image tagged latest, has returned a
\* handle after one run and the retries
C15Witness ==
    /\ Done
    /\ Deref(args).name = ""
    /\ Deref(args).tag = "latest"
    /\ ~IsNil(ReturnedHandle)
    /\ NumCalls("RunWithOptions") = 1
    /\ NumCalls("Retry") = 2

\* C20 as stated: Destroy is idempotent.  When the last Destroy returned nil
\* and docker can be reached again, another Destroy on the same handle leaves
\* the runtime as it was and returns what the first call returned.
C20Idempotent ==
    [][(Destroy /\ ~IsNil(destroyed) /\ IsNil(Deref(destroyed).err)
            /\ Deref(destroyed').connected)
        => runtime' = runtime /\ Deref(destroyed').err = Deref(destroyed).err]_vars

\* C20 amended: after a Destroy that returned nil the resolved container is
\* absent from the runtime; another Destroy on the same handle leaves the
\* runtime as it was, with the container absent, and returns a non-nil error.
C20SecondDestroyFails ==
    /\ []((~IsNil(destroyed) /\ IsNil(Deref(destroyed).err))
            => Deref(Deref(ReturnedHandle).Resource).Container.ID \notin runtime)
    /\ [][(Destroy /\ ~IsNil(destroyed) /\ IsNil(Deref(destroyed).err))
            => /\ runtime' = runtime
               /\ Deref(Deref(ReturnedHandle).Resource).Container.ID \notin runtime'
               /\ ~IsNil(Deref(destroyed').err)]_vars

\* Destroy was called on a handle whose container an earlier Destroy had
\* removed, and docker was reached
C20Witness ==
    /\ ~IsNil(destroyed)
    /\ Deref(destroyed).connected
    /\ Deref(destroyed).err = Errorf("could not purge resource: No such container: new")
    /\ runtime = {}

\* C19: persisted data directory.  The options of every RunWithOptions call
\* hold, after SERVICES, the entry DATA_DIR=<path> and the bind mount
\* /tmp/localstack/data:/tmp/localstack/data when the caller supplied the
\* non-empty data path <path> to the constructor; when the caller supplied no
\* data path the environment holds only SERVICES and there is no mount.
C19DataDir ==
    \A k \in CallsOf("RunWithOptions") :
        LET options == calls[k].options
            data == Deref(args).supplied
            env == << "SERVICES=" \o Rendering(Collection) >>
        IN  IF data # ""
            THEN /\ options.Env = Append(env, "DATA_DIR=" \o data)
                 /\ options.Mounts = << "/tmp/localstack/data:/tmp/localstack/data" >>
            ELSE /\ options.Env = env
                 /\ options.Mounts = << >>

\* C21: Destroy error outcomes.  A Destroy that could not connect to docker
\* made no Purge call and returned a non-nil error; a Destroy whose Purge call
\* returned an error returned a non-nil error that carries it; Destroy returned
\* nil only when it connected and its Purge call returned nil; and no Destroy
\* made more than one Purge call.
C21DestroyErrors ==
    ~IsNil(destroyed) =>
        LET d == Deref(destroyed) IN
        /\ Len(d.purges) <= 1
        /\ ~d.connected => (d.purges = << >> /\ ~IsNil(d.err))
        /\ d.connected => Len(d.purges) = 1
        /\ (Len(d.purges) = 1 /\ ~IsNil(d.purges[1])) =>
                /\ ~IsNil(d.err)
                /\ HasSuffix(Deref(d.err), ": " \o Deref(d.purges[1]))
        /\ IsNil(d.err) <=> (d.connected /\ d.purges = << Nil >>)

\* a Destroy could not connect to docker, while docker holds the container
C21Witness ==
    /\ ~IsNil(destroyed)
    /\ ~Deref(destroyed).connected
    /\ Deref(destroyed).err =
            Errorf("could not connect to docker: cannot connect to the Docker daemon")
    /\ Deref(Deref(ReturnedHandle).Resource).Container.ID \in runtime

\* C22: CreateAWSSession.  The configuration of every session made from a
\* handle has region "us-east-1", DisableSSL and S3ForcePathStyle set, the
\* static credentials a, b, c, and a non-nil resolver that is the handle's
\* value (its Resource and its Services); nothing but the resolver depends on
\* the handle or the Service Set.
C22Session ==
    ~IsNil(sess) =>
        LET config == Deref(sess).Config IN
        /\ config.Region = "us-east-1"
        /\ config.DisableSSL = TRUE
        /\ config.S3ForcePathStyle = TRUE
        /\ config.Credentials = [AccessKeyID |-> "a", SecretAccessKey |-> "b",
                                 SessionToken |-> "c"]
        /\ ~IsNil(config.EndpointResolver)
        /\ Deref(config.EndpointResolver).Resource = localstack
        /\ Deref(config.EndpointResolver).Services = Deref(args).services
        /\ DOMAIN config = {"Region", "EndpointResolver", "DisableSSL",
                            "S3ForcePathStyle", "Credentials"}

\* a session was made from the handle of a discovered container, for the
\* Service Set sqs, s3
C22Witness ==
    /\ ~IsNil(sess)
    /\ NumCalls("InspectContainer") = 1
    /\ Len(Collection) = 2
    /\ Collection[1].Name = "sqs"
    /\ Collection[2].Name = "s3"
    /\ Deref(Deref(sess).Config.EndpointResolver) = Deref(ReturnedHandle)

\* C23: Contains.  Contains(name) returned true exactly when some descriptor
\* of the Service Set has the name name, whatever the set (empty, with
\* duplicate names) and the name; and a Contains call leaves the set as it was.
C23Contains ==
    /\ []((~IsNil(setop) /\ Deref(setop).op = "Contains") =>
            (Deref(setop).out = TRUE
                <=> \E k \in 1..Len(Deref(setop).before) :
                        Deref(setop).before[k].Name = Deref(setop).name))
    /\ [][(\E name \in ContainsNames : CallContains(name)) => heap' = heap]_vars

\* Contains("s3") returned true on a set that holds s3 twice, neither at the end
C23Witness ==
    /\ ~IsNil(setop)
    /\ Deref(setop).op = "Contains"
    /\ Deref(setop).name = "s3"
    /\ Deref(setop).out = TRUE
    /\ Len(Deref(setop).before) = 3
    /\ Deref(setop).before[1].Name = "s3"
    /\ Deref(setop).before[2].Name = "s3"
    /\ Deref(setop).before[3].Name = "sqs"

\* how often the descriptor d occurs in the sequence c
Count(c, d) == Cardinality({k \in 1..Len(c) : c[k] = d})

\* no name of the sequence is followed by a smaller one
SortedByName(c) ==
    \A k \in 1..(Len(c) - 1) : ~StringLess(c[k + 1].Name, c[k].Name)

\* C24: Sort.  After Sort the Service Set at the same address has its names
\* in non-decreasing order, is as long as before and holds every descriptor
\* as often as before; the pointer returned is the one Sort was called on; and
\* a set that was sorted already is left as it was.
C24Sort ==
    /\ [][CallSort =>
            LET before == heap[ServicesPtr]
                after == heap'[ServicesPtr] IN
            /\ SortedByName(after)
            /\ Len(after) = Len(before)
            /\ \A d \in Descriptors : Count(after, d) = Count(before, d)
            /\ Deref(setop').out = ServicesPtr
            /\ DOMAIN heap' = DOMAIN heap
            /\ SortedByName(before) => after = before]_vars
    /\ []((~IsNil(setop) /\ Deref(setop).op = "Sort") => SortedByName(heap[ServicesPtr]))

\* Sort was called on sqs, ses, s3 and the set is now s3, ses, sqs
C24Witness ==
    /\ ~IsNil(setop)
    /\ Deref(setop).op = "Sort"
    /\ Len(Deref(setop).before) = 3
    /\ Deref(setop).before[1].Name = "sqs"
    /\ Deref(setop).before[2].Name = "ses"
    /\ Deref(setop).before[3].Name = "s3"
    /\ heap[ServicesPtr][1].Name = "s3"
    /\ heap[ServicesPtr][2].Name = "ses"
    /\ heap[ServicesPtr][3].Name = "sqs"

\* the lines the last check fetched
Fetched == SubSeq(log, 1, Deref(checked).seen)

\* the runtime client was obtained and the log fetch succeeded
CheckFetched == IsNil(Deref(checked).clientErr) /\ IsNil(Deref(checked).logsErr)

\* C25 as stated: one invocation of the check function returned nil exactly
\* when the client was obtained, the log fetch succeeded and some line of the
\* fetched log holds the text Ready.
C25ReadyIffLine ==
    ~IsNil(checked) =>
        ( IsNil(Deref(checked).out)
            <=> /\ CheckFetched
                /\ \E k \in 1..Len(Fetched) : StringsContains(Fetched[k].text, "Ready.") )

\* C25 amended: one invocation of the check function returned nil exactly
\* when the client was obtained, the log fetch succeeded and some line of the
\* fetched log holds the text Ready. with no line up to and including it
\* longer than the scanner's buffer; in every other case it returned an
\* error.  Which service is polled makes no difference.
C25ReadyIffScanned ==
    ~IsNil(checked) =>
        /\ IsNil(Deref(checked).out)
            <=> /\ CheckFetched
                /\ \E k \in 1..Len(Fetched) :
                    /\ StringsContains(Fetched[k].text, "Ready.")
                    /\ \A m \in 1..k : ~Fetched[m].long
        /\ \A id \in {"new", "c1", "c2"} :
            Check(Deref(checked).clientErr, Deref(checked).logsErr, id, Fetched) = Nil
                <=> IsNil(Deref(checked).out)

\* the check for the second service read a log whose second line holds
\* Ready. between spaces, and returned nil
C25Witness ==
    /\ ~IsNil(checked)
    /\ Deref(checked).i = 2
    /\ CheckFetched
    /\ Deref(checked).seen = 2
    /\ log[1].text = "ready."
    /\ log[2].text = " Ready. ok "
    /\ IsNil(Deref(checked).out)

\* a step on which a Retry call returns
RetryReturns == Len(calls') = Len(calls) + 1 /\ NewCall.op = "Retry"

\* C26: the Retry contract.  While a Retry call runs, every check it made so
\* far failed; it returns success with the first check that returns nil and
\* a failure only with a failed check that uses up the budget; and after a
\* check has returned nil for a service the next check, if any, is the first
\* one for the next service.
C26RetryContract ==
    /\ []((pc = "ready" /\ attempt > 0) =>
            /\ ~IsNil(checked)
            /\ Deref(checked).i = i
            /\ Deref(checked).n = attempt
            /\ ~IsNil(Deref(checked).out)
            /\ attempt < RetryBudget)
    /\ [][RetryReturns =>
            /\ Deref(checked').i = NewCall.i
            /\ Deref(checked').n = attempt + 1
            /\ NewCall.ok <=> IsNil(Deref(checked').out)
            /\ ~NewCall.ok => Deref(checked').n = RetryBudget]_vars
    /\ [][(checked' # checked /\ pc = "ready" /\ attempt = 0 /\ ~IsNil(checked))
            => Deref(checked').n = 1 /\ Deref(checked').i = Deref(checked).i + 1]_vars
    /\ [][(checked' # checked /\ ~IsNil(checked) /\ IsNil(Deref(checked).out))
            => Deref(checked').i = Deref(checked).i + 1]_vars

\* the Retry call for the first service returned success with its second
\* check, and the one for the second service gave up
C26Witness ==
    /\ Done
    /\ NumCalls("Retry") = 2
    /\ calls[Len(calls) - 1].op = "Retry"
    /\ calls[Len(calls) - 1].ok
    /\ ~calls[Len(calls)].ok
    /\ Deref(checked).total = RetryBudget + 2
    /\ Deref(checked).n = RetryBudget

Stage(op) ==
    CASE op = "ListContainers" -> 1
      [] op = "InspectContainer" -> 2
      [] op = "RunWithOptions" -> 2
      [] op = "Retry" -> 3

\* C28: order of the calls on the wrapper within one construction.  The
\* calls made so far are: ListContainers at most once, first, and only when
\* the name is not empty; then InspectContainer at most once or
\* RunWithOptions at most once, never both; then Retry calls.  No list,
\* inspect or run call follows a Retry call, and every Retry call comes after
\* a successful inspect or run.
C28CallOrder ==
    /\ \A k \in 1..Len(calls) : \A m \in 1..Len(calls) :
            k < m => /\ Stage(calls[k].op) <= Stage(calls[m].op)
                     /\ Stage(calls[m].op) < 3 => Stage(calls[k].op) < Stage(calls[m].op)
    /\ \A k \in CallsOf("ListContainers") : k = 1 /\ Deref(args).name # ""
    /\ NumCalls("ListContainers") <= 1
    /\ NumCalls("InspectContainer") + NumCalls("RunWithOptions") <= 1
    /\ \A k \in CallsOf("Retry") :
            /\ ~IsNil(localstack)
            /\ \E m \in 1..(k - 1) : Stage(calls[m].op) = 2 /\ calls[m].ok

\* a named construction listed, inspected the container it found and polled
\* two services
C28Witness ==
    /\ Len(calls) = 4
    /\ calls[1].op = "ListContainers"
    /\ calls[2].op = "InspectContainer"
    /\ calls[3].op = "Retry"
    /\ calls[4].op = "Retry"
    /\ NumCalls("RunWithOptions") = 0

\* descriptor names whose SDK identifier is another word, with the identifier
RenamedServices ==
    {<< "ses", "email" >>, << "cloudwatch", "monitoring" >>,
     << "stepfunctions", "states" >>, << "dynamodbstreams", "streams.dynamodb" >>}

\* the Service Set that holds the descriptor of name alone
OnlyService(name) == << Deref(NewLocalstackService(name).svc) >>

\* C29: resolution tests membership on the mapped descriptor name.  An
\* EndpointFor call through a handle whose Service Set holds ses only gave the
\* emulator URL for the identifier email and the default resolver's answer for
\* the identifier ses; and through every handle, with a Service Set of
\* cloudwatch, stepfunctions or dynamodbstreams (or ses) alone, the SDK
\* identifier resolves to the emulator URL while the descriptor name passed
\* as identifier is delegated to default resolution.
C29MappedName ==
    /\ (~IsNil(ep) /\ heap[Deref(ReturnedHandle).Services] = OnlyService("ses")) =>
            /\ Deref(ep).service = "email" => Deref(ep).out.URL = EmulatorURL
            /\ Deref(ep).service = "ses" =>
                    Deref(ep).out = DefaultResolverEndpointFor("ses", Deref(ep).region)
    /\ (Done /\ ~IsNil(returned) /\ ~IsNil(ReturnedHandle)) =>
            \A pair \in RenamedServices : \A region \in Regions :
                /\ IsNil(NewLocalstackService(pair[1]).err)
                /\ pair[1] \notin DOMAIN availableServices
                /\ EndpointFor(Deref(ReturnedHandle), OnlyService(pair[1]),
                               pair[2], region)
                        = [URL |-> EmulatorURL, err |-> Nil]
                /\ EndpointFor(Deref(ReturnedHandle), OnlyService(pair[1]),
                               pair[1], region)
                        = DefaultResolverEndpointFor(pair[1], region)
                /\ DefaultResolverEndpointFor(pair[1], region).URL # EmulatorURL

\* the identifier email was resolved through a handle whose set holds ses
\* alone, and came back with the emulator URL
C29Witness ==
    /\ ~IsNil(ep)
    /\ Deref(ep).service = "email"
    /\ heap[Deref(ReturnedHandle).Services] = OnlyService("ses")
    /\ Deref(ep).out.URL = EmulatorURL
    /\ Deref(ep).out.URL = "http://1.0.0.0:9566"

\* the RunWithOptions calls in a call history
RunsIn(cs) == Cardinality({k \in 1..Len(cs) : cs[k].op = "RunWithOptions"})

\* a construction with an explicit name started a container and returned, a
\* second one with the same name, repository and tag was started, and its
\* ListContainers listed that container under its image and name
ListedAgain ==
    /\ ~IsNil(first)
    /\ ~IsNil(Deref(first).listed)
    /\ Deref(first).args.name # ""
    /\ Created(Deref(first).calls)
    /\ Deref(args).name = Deref(first).args.name
    /\ Deref(args).repository = Deref(first).args.repository
    /\ Deref(args).tag = Deref(first).args.tag
    /\ \E k \in 1..Len(Deref(Deref(first).listed)) :
            LET c == Deref(Deref(first).listed)[k] IN
            /\ c.ID = "new"
            /\ c.Image = Deref(args).repository \o ":" \o Deref(args).tag
            /\ \E j \in 1..Len(c.Names) : c.Names[j] = "/" \o Deref(args).name

\* C30: discovery across two constructions.  When a construction with name
\* X, repository R and tag T started a container and returned, and the second
\* construction with the same X, R and T was answered by ListContainers with
\* that container under image R:T and name /X, then the second construction
\* goes on to inspect that container and no other, resolves to it when the
\* inspect succeeds, and makes no RunWithOptions call: over both
\* constructions RunWithOptions was called once.
C30DiscoversAgain ==
    ListedAgain =>
        /\ pc # "create"
        /\ pc = "inspect" =>
                containers[FirstMatch(containers, Deref(args).name,
                                      Deref(args).repository, Deref(args).tag)].ID = "new"
        /\ NumCalls("InspectContainer") = 1 \/ pc = "inspect"
        /\ \A k \in CallsOf("InspectContainer") : calls[k].id = "new"
        /\ ~IsNil(localstack) => Deref(localstack).Container.ID = "new"
        /\ (Done /\ ~IsNil(ReturnedHandle)) =>
                Deref(Deref(ReturnedHandle).Resource).Container.ID = "new"
        /\ NumCalls("RunWithOptions") = 0
        /\ RunsIn(Deref(first).calls) + NumCalls("RunWithOptions") = 1

\* the second construction found the container of the first behind another
\* one of the same image, inspected it, polled two services and returned a
\* handle on it
C30Witness ==
    /\ ListedAgain
    /\ Len(Deref(Deref(first).listed)) = 2
    /\ Deref(Deref(first).listed)[2].ID = "new"
    /\ Deref(Deref(first).listed)[1].Image = Deref(Deref(first).listed)[2].Image
    /\ Done
    /\ ~IsNil(ReturnedHandle)
    /\ Len(calls) = 4
    /\ calls[2].op = "InspectContainer"
    /\ calls[2].id = "new"
    /\ RunsIn(Deref(first).calls) = 1

\* the ids of the containers the construction resolved, by inspect or by run
ResolvedIDs ==
    {calls[k].container.ID : k \in {m \in CallsOf("InspectContainer") : calls[m].ok}}
        \cup {calls[k].resource.Container.ID :
                k \in {m \in CallsOf("RunWithOptions") : calls[m].ok}}

\* C31: construction never purges or removes a container.  As long as no
\* Destroy was called, every container the construction resolved is still
\* held by the runtime; and when a container was started by RunWithOptions
\* and a later Retry call failed, the construction has returned a nil handle,
\* the started container is still held by the runtime, and there is no
\* handle on which the caller could call Destroy.
C31NeverPurges ==
    /\ IsNil(destroyed) => ResolvedIDs \subseteq runtime
    /\ (ResolvedBy("RunWithOptions") /\ \E k \in CallsOf("Retry") : ~calls[k].ok) =>
            /\ Done
            /\ IsNil(ReturnedHandle)
            /\ ~IsNil(ReturnedErr)
            /\ IsNil(destroyed)
            /\ ~ENABLED Destroy
            /\ "new" \in runtime

\* a container was started, the first service became ready and the Retry call
\* for the second failed: the container is left in the runtime
C31Witness ==
    /\ Done
    /\ ResolvedBy("RunWithOptions")
    /\ NumCalls("Retry") = 2
    /\ ~calls[Len(calls)].ok
    /\ IsNil(ReturnedHandle)
    /\ runtime = {"new"}

\* both constructions have listed, found no match and not called run yet
BothListed ==
    /\ ~IsNil(peer)
    /\ pc = "create"
    /\ Deref(peer).pc = "create"
    /\ Deref(peer).args = args
    /\ Deref(args).name # ""

\* C32: discovery followed by creation is not atomic.  A construction whose
\* listing held no match can always go on to RunWithOptions, whatever the
\* other construction has done since, and its next call on the wrapper is
\* RunWithOptions with the name it was given: it takes no lock and does not
\* list again.  So when two constructions with the same name, repository and
\* tag have both listed before either has run, the step of either one is its
\* RunWithOptions call with that name, and the other still stands before its
\* own.
C32NotAtomic ==
    /\ [](pc = "create" => ENABLED RunWithOptions)
    /\ [][(pc = "create" /\ peer' = peer) =>
            /\ Len(calls') = Len(calls) + 1
            /\ NewCall.op = "RunWithOptions"
            /\ NewCall.options.Name = Deref(args).name
            /\ NewCall.options.Repository = Deref(args).repository
            /\ NewCall.options.Tag = Deref(args).tag]_vars
    /\ [][(BothListed /\ peer' = peer) =>
            /\ NewCall.op = "RunWithOptions"
            /\ Deref(peer').pc = "create"
            /\ NewCall.options.Name = Deref(Deref(peer').args).name]_vars
    /\ [](BothListed => ~Created(calls) /\ ~Created(Deref(peer).calls))

\* both constructions listed, found nothing and started a container of the
\* name X
C32Witness ==
    /\ ~IsNil(peer)
    /\ Len(calls) = 2
    /\ Len(Deref(peer).calls) = 2
    /\ calls[1].op = "ListContainers"
    /\ Deref(peer).calls[1].op = "ListContainers"
    /\ calls[2].op = "RunWithOptions"
    /\ Deref(peer).calls[2].op = "RunWithOptions"
    /\ calls[2].ok
    /\ Deref(peer).calls[2].ok
    /\ calls[2].options.Name = "X"
    /\ Deref(peer).calls[2].options = calls[2].options

\* C33: Destroy leaves the handle unchanged.  Over a Destroy call, whether it
\* returns nil or an error, the handle's Resource and Services and the Service
\* Set itself stay what they were; and an EndpointFor call made after a
\* Destroy still returns the emulator URL, with no error, for every
\* identifier whose service is enabled, the URL being that of the container
\* the construction resolved.
C33DestroyKeepsHandle ==
    /\ [][~IsNil(destroyed') =>
            /\ returned' = returned
            /\ heap' = heap
            /\ Deref(ReturnedHandle).Resource = localstack]_vars
    /\ [][(~IsNil(destroyed) /\ ep' # ep) =>
            /\ Enabled(Deref(ep').service) =>
                    Deref(ep').out = [URL |-> EmulatorURL, err |-> Nil]
            /\ Deref(ep').out.URL = EmulatorURL
                    <=> Enabled(Deref(ep').service)]_vars
    /\ []((~IsNil(destroyed) /\ ~IsNil(ep)) =>
            (Enabled(Deref(ep).service) =>
                Deref(ep).out = [URL |-> EmulatorURL, err |-> Nil]))

\* Destroy removed the container, and an EndpointFor call made afterwards for
\* sqs, which the set holds, came back with the emulator URL
C33Witness ==
    /\ ~IsNil(destroyed)
    /\ IsNil(Deref(destroyed).err)
    /\ runtime = {}
    /\ ~IsNil(ep)
    /\ Deref(ep).service = "sqs"
    /\ Enabled("sqs")
    /\ Deref(ep).out.URL = EmulatorURL

\* a check has returned nil for a service before the one the last check was
\* made for
ReadyBefore ==
    /\ ~IsNil(checked)
    /\ \E k \in CallsOf("Retry") : calls[k].ok /\ calls[k].i < Deref(checked).i

\* C34: readiness is monotone over an append-only log.  Once a check has
\* returned nil for one service, every check made for a later service of the
\* set returns nil unless the client could not be created or the log fetch
\* failed; so the first check whose log fetch succeeds ends the Retry call
\* with success, and a Retry call for a later service fails only with a check
\* that could not fetch the log.
C34Monotone ==
    /\ ReadyBefore =>
            /\ CheckFetched => IsNil(Deref(checked).out)
            /\ ~IsNil(Deref(checked).out) => ~CheckFetched
            /\ Len(log) >= Deref(checked).seen
    /\ \A k \in CallsOf("Retry") : \A m \in CallsOf("Retry") :
            (k < m /\ calls[k].ok /\ ~calls[m].ok) =>
                /\ m = Len(calls)
                /\ Deref(checked).i = calls[m].i
                /\ ~CheckFetched

\* the first service became ready, the container wrote another line without
\* Ready., and the first check for the second service returned nil
C34Witness ==
    /\ ReadyBefore
    /\ Deref(checked).i = 2
    /\ Deref(checked).n = 1
    /\ CheckFetched
    /\ IsNil(Deref(checked).out)
    /\ Deref(checked).seen = 2
    /\ log[2].text = "Waiting"

\* C35: empty Service Set.  A construction called with an empty set makes no
\* Retry call and so no check of the log, passes SERVICES= with nothing after
\* it when it runs a container, and has returned a handle and a nil error in
\* the state its inspect or run call succeeded; and every EndpointFor call on
\* that handle, for every identifier and region, gets the default resolver's
\* answer.
C35EmptySet ==
    (~IsNil(args) /\ Len(Collection) = 0) =>
        /\ NumCalls("Retry") = 0
        /\ pc # "ready"
        /\ \A k \in CallsOf("RunWithOptions") :
                /\ calls[k].options.Env[1] = "SERVICES="
                /\ \A j \in 2..Len(calls[k].options.Env) :
                        calls[k].options.Env[j] = "DATA_DIR=" \o Deref(args).data
        /\ (ResolvedBy("InspectContainer") \/ ResolvedBy("RunWithOptions")) =>
                /\ Done
                /\ calls[Len(calls)].ok
                /\ ~IsNil(ReturnedHandle)
                /\ IsNil(ReturnedErr)
                /\ Deref(ReturnedHandle).Resource = localstack
                /\ \A service \in ServiceIDs \cup DOMAIN availableServices :
                        \A region \in Regions :
                            EndpointFor(Deref(ReturnedHandle), Collection, service, region)
                                = DefaultResolverEndpointFor(service, region)
        /\ ~IsNil(ep) =>
                /\ Deref(ep).out
                        = DefaultResolverEndpointFor(Deref(ep).service, Deref(ep).region)
                /\ Deref(ep).out.URL # EmulatorURL

\* an unnamed construction with an empty set ran a container, made no Retry
\* call and returned a handle, through which sqs was resolved by the default
\* resolver
C35Witness ==
    /\ ~IsNil(args)
    /\ Len(Collection) = 0
    /\ Len(calls) = 1
    /\ calls[1].op = "RunWithOptions"
    /\ calls[1].options.Env = << "SERVICES=" >>
    /\ Done
    /\ ~IsNil(ReturnedHandle)
    /\ ~IsNil(ep)
    /\ Deref(ep).service = "sqs"
    /\ Deref(ep).out.URL = "https://sqs.us-east-1.amazonaws.com"

\* the container the successful InspectContainer call returned
Inspected ==
    calls[CHOOSE k \in CallsOf("InspectContainer") : calls[k].ok].container

\* C36: a discovered container is used as found.  When the construction
\* resolved its container by inspect, it has built no run options and made
\* no call on the wrapper but ListContainers, InspectContainer and Retry, so
\* neither the Service Set nor the data path reached the container and
\* nothing started it; the handle it returns has what inspect returned as its
\* Resource and the caller's set as its Services, and EndpointFor on that
\* handle answers with the published address of the found container for
\* every identifier whose service is in the set.
C36UsedAsFound ==
    ResolvedBy("InspectContainer") =>
        /\ NumCalls("RunWithOptions") = 0
        /\ \A k \in 1..Len(calls) :
                /\ calls[k].op \in {"ListContainers", "InspectContainer", "Retry"}
                /\ "options" \notin DOMAIN calls[k]
        /\ localstack = NonNil([Container |-> Inspected])
        /\ (Done /\ ~IsNil(ReturnedHandle)) =>
                /\ Deref(ReturnedHandle).Resource = NonNil([Container |-> Inspected])
                /\ Deref(ReturnedHandle).Services = Deref(args).services
                /\ heap[Deref(ReturnedHandle).Services] = Collection
        /\ ~IsNil(ep) =>
                (Enabled(Deref(ep).service) =>
                    Deref(ep).out = [URL |-> "http://" \o Inspected.Ports["4566/tcp"],
                                     err |-> Nil])

\* a construction with a data path and the set {sqs} found its container,
\* never ran one, and sqs was resolved to the found container's address
C36Witness ==
    /\ ResolvedBy("InspectContainer")
    /\ Deref(args).data = "/tmp/data"
    /\ Len(Collection) = 1
    /\ Collection[1].Name = "sqs"
    /\ NumCalls("RunWithOptions") = 0
    /\ Done
    /\ ~IsNil(ReturnedHandle)
    /\ ~IsNil(ep)
    /\ Deref(ep).service = "sqs"
    /\ Deref(ep).out.URL = "http://localhost:32768"
    /\ Inspected.Ports["4566/tcp"] = "localhost:32768"

====
